---------------------------- MODULE Spec2Model ----------------------------
(***************************************************************************)
(* LearnFlow chatbot server: the rate limiter, the POST /api/chat handler  *)
(* (request validation, /scan and /debug dispatch, prompt composition,     *)
(* Gemini call and fallback) and the context extractors it uses.           *)
(*                                                                         *)
(* Text is modelled as a sequence of one-character strings, so that        *)
(* trim, toLowerCase, includes, startsWith, split and the regular          *)
(* expressions of the source are computed character by character.          *)
(***************************************************************************)
EXTENDS Integers, Sequences, FiniteSets, TLC

(***************************************************************************)
(* Characters and the string primitives of the source                      *)
(***************************************************************************)
UpperSeq == <<"A","B","C","D","E","F","G","H","I","J","K","L","M",
              "N","O","P","Q","R","S","T","U","V","W","X","Y","Z">>
LowerSeq == <<"a","b","c","d","e","f","g","h","i","j","k","l","m",
              "n","o","p","q","r","s","t","u","v","w","x","y","z">>
DigitSeq == <<"0","1","2","3","4","5","6","7","8","9">>

UpperChars == {UpperSeq[i] : i \in 1..26}
LowerChars == {LowerSeq[i] : i \in 1..26}
DigitChars == {DigitSeq[i] : i \in 1..10}
SpaceChars == {" ", "\t", "\n"}

\* [A-Za-z]
IsLetter(c) == c \in UpperChars \cup LowerChars
\* \d
IsDigit(c) == c \in DigitChars
\* \s
IsSpace(c) == c \in SpaceChars
\* \w
IsWordChar(c) == IsLetter(c) \/ IsDigit(c) \/ c = "_"

\* String.prototype.toLowerCase, one character
toLowerChar(c) ==
    IF c \in UpperChars THEN LowerSeq[CHOOSE i \in 1..26 : UpperSeq[i] = c] ELSE c
\* String.prototype.toUpperCase, one character
toUpperChar(c) ==
    IF c \in LowerChars THEN UpperSeq[CHOOSE i \in 1..26 : LowerSeq[i] = c] ELSE c
toLowerCase(s) == [i \in 1..Len(s) |-> toLowerChar(s[i])]
toUpperCase(s) == [i \in 1..Len(s) |-> toUpperChar(s[i])]

\* the value of one decimal digit (parseInt of a one-digit capture)
DigitVal(c) == (CHOOSE i \in 1..10 : DigitSeq[i] = c) - 1

\* sub occurs in s at position i (1-based)
OccursAt(s, sub, i) ==
    /\ i >= 1
    /\ i + Len(sub) - 1 <= Len(s)
    /\ \A k \in 1..Len(sub) : s[i + k - 1] = sub[k]
\* String.prototype.includes
includes(s, sub) == \E i \in 1..(Len(s) + 1) : OccursAt(s, sub, i)
\* String.prototype.startsWith
startsWith(s, sub) == OccursAt(s, sub, 1)

\* String.prototype.trim
trim(s) ==
    IF \A i \in 1..Len(s) : IsSpace(s[i]) THEN << >>
    ELSE LET first == CHOOSE i \in 1..Len(s) :
                          ~IsSpace(s[i]) /\ \A j \in 1..(i - 1) : IsSpace(s[j])
             last  == CHOOSE i \in 1..Len(s) :
                          ~IsSpace(s[i]) /\ \A j \in (i + 1)..Len(s) : IsSpace(s[j])
         IN SubSeq(s, first, last)

\* the regular expressions' \b at the gap before position i of s
WordBoundary(s, i) ==
    LET before == i - 1 >= 1 /\ i - 1 <= Len(s) /\ IsWordChar(s[i - 1])
        after  == i >= 1 /\ i <= Len(s) /\ IsWordChar(s[i])
    IN before # after

\* case-insensitive literal (the /i flag) at position i
OccursAtI(s, sub, i) ==
    /\ i >= 1
    /\ i + Len(sub) - 1 <= Len(s)
    /\ \A k \in 1..Len(sub) : toLowerChar(s[i + k - 1]) = sub[k]


\* an optional value (null or a value)
None == [some |-> FALSE, val |-> << >>]
Some(v) == [some |-> TRUE, val |-> v]

\* the least element of a non-empty set of integers
Min(S) == CHOOSE x \in S : \A y \in S : x <= y
Max(S) == CHOOSE x \in S : \A y \in S : x >= y

\* all of s[from .. from+n-1] exist and satisfy the character class
AllLetters(s, from, n) == from + n - 1 <= Len(s) /\ \A k \in 0..(n - 1) : IsLetter(s[from + k])
AllDigits(s, from, n)  == from + n - 1 <= Len(s) /\ \A k \in 0..(n - 1) : IsDigit(s[from + k])
AllSpaces(s, from, n)  == from + n - 1 <= Len(s) /\ \A k \in 0..(n - 1) : IsSpace(s[from + k])

(***************************************************************************)
(* Educational utilities: the course table and the course-code extractor   *)
(***************************************************************************)
CourseCodes == {<<"C","H","B","1","0","1">>, <<"I","T","C","1","0","1">>, <<"C","S","E","2","0","1">>}

courseDatabase ==
    [c \in CourseCodes |->
        CASE c = <<"C","H","B","1","0","1">> -> [name |-> "Chemistry Basics 101"]
          [] c = <<"I","T","C","1","0","1">> -> [name |-> "Introduction to Computing 101"]
          [] c = <<"C","S","E","2","0","1">> -> [name |-> "Computer Science Engineering 201"]]

SemesterKeys == {1, 2, 3, 4}

\* semesterResources: the path of each listed semester
semesterResources ==
    [n \in SemesterKeys |->
        CASE n = 1 -> "/resources/semester1"
          [] n = 2 -> "/resources/semester2"
          [] n = 3 -> "/resources/semester3"
          [] n = 4 -> "/resources/semester4"]

\* courseDatabase[normalizedCode] || null
getCourseInfo(courseCode) ==
    LET normalizedCode == toUpperCase(courseCode)
    IN IF normalizedCode \in CourseCodes
       THEN [some |-> TRUE, val |-> courseDatabase[normalizedCode].name]
       ELSE [some |-> FALSE, val |-> ""]

\* semesterResources[String(semester)] || null
getSemesterResources(semester) ==
    IF semester \in SemesterKeys
    THEN [some |-> TRUE, val |-> semesterResources[semester]]
    ELSE [some |-> FALSE, val |-> ""]

\* /\b([A-Za-z]{2,3})\s*(\d{3})\b/i matches at position i with nL letters
\* and w whitespace characters
CourseRegexAt(s, i, nL, w) ==
    /\ WordBoundary(s, i)
    /\ AllLetters(s, i, nL)
    /\ AllSpaces(s, i + nL, w)
    /\ AllDigits(s, i + nL + w, 3)
    /\ WordBoundary(s, i + nL + w + 3)

\* the positions where a word starts with a letter
LetterStarts(s) == {i \in 1..Len(s) : WordBoundary(s, i) /\ IsLetter(s[i])}

\* every way the expression matches somewhere in s, as <<i, nL, w>>
CourseMatches(s) ==
    {m \in LetterStarts(s) \X {2, 3} \X (0..Len(s)) : CourseRegexAt(s, m[1], m[2], m[3])}

\* the match the engine reports: the leftmost start, then 3 letters before 2,
\* then the longest whitespace
FirstCourseMatch(M) ==
    CHOOSE m \in M : \A o \in M :
        \/ m[1] < o[1]
        \/ m[1] = o[1] /\ m[2] > o[2]
        \/ m[1] = o[1] /\ m[2] = o[2] /\ m[3] >= o[3]

\* the two capture groups of match m
CourseCapture(s, m) ==
    [found   |-> TRUE,
     letters |-> SubSeq(s, m[1], m[1] + m[2] - 1),
     digits  |-> SubSeq(s, m[1] + m[2] + m[3], m[1] + m[2] + m[3] + 2)]

CourseRegexResult(s, M) ==
    IF M = {} THEN [found |-> FALSE, letters |-> << >>, digits |-> << >>]
    ELSE CourseCapture(s, FirstCourseMatch(M))

\* String.prototype.match with the course-code expression
courseCodeRegex(s) == CourseRegexResult(s, CourseMatches(s))

\* `${match[1]}${match[2]}`.toUpperCase()
CourseCodeOf(match) == toUpperCase(match.letters \o match.digits)

\* courseDatabase[courseCode] ? courseCode : null
KnownCourse(courseCode) == IF courseCode \in CourseCodes THEN Some(courseCode) ELSE None

CourseCodeResult(match) == IF match.found THEN KnownCourse(CourseCodeOf(match)) ELSE None

extractCourseCode(query) == CourseCodeResult(courseCodeRegex(query))

NavigationKeywords ==
    {<<"w","h","e","r","e">>, <<"f","i","n","d">>, <<"l","o","c","a","t","e">>, <<"s","h","o","w"," ","m","e">>, <<"h","o","w"," ","t","o"," ","a","c","c","e","s","s">>,
     <<"r","e","s","o","u","r","c","e","s">>, <<"m","a","t","e","r","i","a","l","s">>, <<"l","e","c","t","u","r","e","s">>, <<"n","o","t","e","s">>, <<"s","e","m","e","s","t","e","r">>}

ContainsAny(lowercaseQuery, keywords) == \E keyword \in keywords : includes(lowercaseQuery, keyword)

isNavigationQuery(query) == ContainsAny(toLowerCase(query), NavigationKeywords)

(***************************************************************************)
(* Website knowledge utilities: extractResourceInfo                        *)
(***************************************************************************)
OrdinalSuffixes == {<<"s","t">>, <<"n","d">>, <<"r","d">>, <<"t","h">>}

\* (st|nd|rd|th)?\s+sem(ester)?\b attempted at position p, case-insensitive
SemesterTailAt(s, p) ==
    \E sfx \in {0, 2} :
      /\ sfx = 2 => \E o \in OrdinalSuffixes : OccursAtI(s, o, p)
      /\ \E w \in 1..Len(s) :
           /\ AllSpaces(s, p + sfx, w)
           /\ OccursAtI(s, <<"s","e","m">>, p + sfx + w)
           /\ \E e \in {0, 5} :
                /\ e = 5 => OccursAtI(s, <<"e","s","t","e","r">>, p + sfx + w + 3)
                /\ WordBoundary(s, p + sfx + w + 3 + e)

\* /\b(\d)(st|nd|rd|th)?\s+sem(ester)?\b/i attempted at position i
SemesterRegexAt(s, i) ==
    /\ WordBoundary(s, i)
    /\ AllDigits(s, i, 1)
    /\ SemesterTailAt(s, i + 1)
\* a match that reports the rightmost occurrence
SemesterRegexResultLast(s, starts) == IF starts = {} THEN None ELSE Some(s[Max(starts)])

\* String.prototype.match with the semester expression: capture 1 of the
\* leftmost match
SemesterRegexResult(s, starts) == IF starts = {} THEN None ELSE Some(s[Min(starts)])

semesterRegex(s) == SemesterRegexResult(s, {i \in 1..Len(s) : SemesterRegexAt(s, i)})

\* /\bunit\s*(\d+)\b/i matches at position i with w whitespace characters
\* and n digits
UnitRegexAt(s, i, w, n) ==
    /\ WordBoundary(s, i)
    /\ OccursAtI(s, <<"u","n","i","t">>, i)
    /\ AllSpaces(s, i + 4, w)
    /\ AllDigits(s, i + 4 + w, n)
    /\ WordBoundary(s, i + 4 + w + n)

\* every way the expression matches somewhere in s, as <<i, w, n>>
UnitMatches(s) ==
    {m \in {i \in 1..Len(s) : OccursAtI(s, <<"u","n","i","t">>, i)} \X (0..Len(s)) \X (1..Len(s)) :
        UnitRegexAt(s, m[1], m[2], m[3])}

RECURSIVE parseInt(_)
\* parseInt of a run of decimal digits
parseInt(ds) ==
    IF Len(ds) = 0 THEN 0
    ELSE 10 * parseInt(SubSeq(ds, 1, Len(ds) - 1)) + DigitVal(ds[Len(ds)])

\* the leftmost match (at one start the whitespace and digit runs are fixed)
FirstUnitMatch(M) == CHOOSE m \in M : \A o \in M : m[1] <= o[1]

UnitCapture(s, m) == Some(SubSeq(s, m[1] + 4 + m[2], m[1] + 4 + m[2] + m[3] - 1))

UnitRegexResult(s, M) == IF M = {} THEN None ELSE UnitCapture(s, FirstUnitMatch(M))

unitRegex(s) == UnitRegexResult(s, UnitMatches(s))

ResourceTypes == <<<<"p","d","f">>, <<"n","o","t","e","s">>, <<"m","a","n","u","a","l">>, <<"a","s","s","i","g","n","m","e","n","t">>, <<"l","a","b">>, <<"d","o","w","n","l","o","a","d">>>>

\* /\b(pdf|notes|manual|assignment|lab|download)\b/i matches at position i
\* with alternative a
ResourceTypeRegexAt(s, i, a) ==
    /\ WordBoundary(s, i)
    /\ OccursAtI(s, ResourceTypes[a], i)
    /\ WordBoundary(s, i + Len(ResourceTypes[a]))

\* every way the expression matches somewhere in s, as <<i, a>>
ResourceTypeMatches(s) ==
    {m \in (1..Len(s)) \X (1..Len(ResourceTypes)) : ResourceTypeRegexAt(s, m[1], m[2])}

\* the leftmost match, the alternatives tried in their order
FirstResourceTypeMatch(M) ==
    CHOOSE m \in M : \A o \in M : m[1] < o[1] \/ (m[1] = o[1] /\ m[2] <= o[2])

ResourceTypeCapture(s, m) == Some(SubSeq(s, m[1], m[1] + Len(ResourceTypes[m[2]]) - 1))

ResourceTypeRegexResult(s, M) ==
    IF M = {} THEN None ELSE ResourceTypeCapture(s, FirstResourceTypeMatch(M))

resourceTypeRegex(s) == ResourceTypeRegexResult(s, ResourceTypeMatches(s))

\* the record extractResourceInfo returns for the four matches
ResourceInfo(courseMatch, unitMatch, semesterMatch, resourceTypeMatch) ==
    [courseCode   |-> IF courseMatch.found THEN Some(CourseCodeOf(courseMatch)) ELSE None,
     unit         |-> IF unitMatch.some
                      THEN [some |-> TRUE, val |-> parseInt(unitMatch.val)]
                      ELSE [some |-> FALSE, val |-> 0],
     semester     |-> IF semesterMatch.some
                      THEN [some |-> TRUE, val |-> DigitVal(semesterMatch.val)]
                      ELSE [some |-> FALSE, val |-> 0],
     resourceType |-> IF resourceTypeMatch.some
                      THEN Some(toLowerCase(resourceTypeMatch.val))
                      ELSE None]

extractResourceInfo(query) ==
    ResourceInfo(courseCodeRegex(query), unitRegex(query), semesterRegex(query),
                 resourceTypeRegex(query))

(***************************************************************************)
(* Website navigation table (data/websiteNavigation.json as loaded at      *)
(* module load; a load failure leaves the four lists empty)                *)
(***************************************************************************)
websiteNavigation ==
    [pages       |-> <<[name |-> <<"R","e","s","o","u","r","c","e","s">>, path |-> "/resources"]>>,
     departments |-> <<[code |-> <<"C","S","E">>, name |-> <<"C","o","m","p","u","t","e","r"," ","S","c","i","e","n","c","e">>, path |-> "/departments/cse"]>>,
     semesters   |-> <<[number |-> <<"3">>, name |-> "Semester 3", path |-> "/semesters/3"]>>,
     resources   |-> <<[name |-> <<"L","a","b"," ","M","a","n","u","a","l","s">>, path |-> "/resources/lab-manuals"]>>]

\* new RegExp(`\\b${sem.number}(st|nd|rd|th)?\\s+sem(ester)?\\b`, 'i').test(s)
NavSemesterRegex(s, number) ==
    \E i \in 1..Len(s) :
      /\ WordBoundary(s, i)
      /\ OccursAt(s, number, i)
      /\ SemesterTailAt(s, i + Len(number))

\* the entries of a list (by index, in list order) that satisfy Hit
Hits(list, Hit(_)) == SelectSeq([i \in 1..Len(list) |-> i], LAMBDA i : Hit(list[i]))

\* the paths of the entries of list at the indices hits
PathsOf(list, hits) == [i \in 1..Len(hits) |-> list[hits[i]].path]

\* the navigation text, as the list of table entries it names, in the order
\* pages, departments, semesters, resources
NavigationInfo(lowercaseQuery, nav) ==
    PathsOf(nav.pages,
            Hits(nav.pages, LAMBDA page : includes(lowercaseQuery, toLowerCase(page.name))))
    \o PathsOf(nav.departments,
               Hits(nav.departments,
                    LAMBDA dept : \/ includes(lowercaseQuery, toLowerCase(dept.code))
                                  \/ includes(lowercaseQuery, toLowerCase(dept.name))))
    \o PathsOf(nav.semesters,
               Hits(nav.semesters, LAMBDA sem : NavSemesterRegex(lowercaseQuery, sem.number)))
    \o PathsOf(nav.resources,
               Hits(nav.resources, LAMBDA res : includes(lowercaseQuery, toLowerCase(res.name))))

getWebsiteNavigationInfo(query) == NavigationInfo(toLowerCase(query), websiteNavigation)

(***************************************************************************)
(* Web search utilities                                                    *)
(***************************************************************************)
CurrentEventKeywords ==
    {<<"l","a","t","e","s","t">>, <<"r","e","c","e","n","t">>, <<"n","e","w">>, <<"c","u","r","r","e","n","t">>, <<"t","o","d","a","y">>, <<"y","e","s","t","e","r","d","a","y">>,
     <<"t","h","i","s"," ","w","e","e","k">>, <<"t","h","i","s"," ","m","o","n","t","h">>, <<"t","h","i","s"," ","y","e","a","r">>, <<"u","p","d","a","t","e">>, <<"n","e","w","s">>,
     <<"2","0","2","3">>, <<"2","0","2","4">>, <<"2","0","2","5">>}

PlatformKeywords ==
    {<<"l","e","a","r","n","f","l","o","w">>, <<"c","o","u","r","s","e">>, <<"a","s","s","i","g","n","m","e","n","t">>, <<"l","e","c","t","u","r","e">>, <<"p","r","o","f","e","s","s","o","r">>, <<"c","l","a","s","s">>}

needsWebSearch(query) ==
    \/ ContainsAny(toLowerCase(query), CurrentEventKeywords)
    \/ ~ContainsAny(toLowerCase(query), PlatformKeywords)

\* what the search provider can do with one request
SearchOutcomes == {"items", "noItems", "error"}

\* the catch of performWebSearch is entered: the provider is called (a key is
\* configured) and the call throws
searchFailed(hasKey, outcome) == hasKey /\ outcome = "error"
\* the number of results performWebSearch returns: without a configured key
\* the 3 simulated results; with one, the top 3 of the provider's items, none
\* when it has no items, and the 3 simulated results when the call throws
performWebSearch(hasKey, outcome, nItems) ==
    IF ~hasKey THEN 3
    ELSE CASE outcome = "items"   -> IF nItems > 3 THEN 3 ELSE nItems
           [] outcome = "noItems" -> 0
           [] outcome = "error"   -> 3

\* the web search context, as the number of entries formatWebSearchResults
\* writes into it (0: the empty string)
getWebSearchContext(query, hasKey, outcome, nItems) ==
    IF ~needsWebSearch(query) THEN 0
    ELSE performWebSearch(hasKey, outcome, nItems)


(***************************************************************************)
(* Website knowledge utilities: the resource index                         *)
(***************************************************************************)
\* resourceDatabase as declared: four empty lists
EmptyDatabase == [assignments |-> << >>, notes |-> << >>, labManuals |-> << >>, downloads |-> << >>]

File(name, dir) == [name |-> name, path |-> dir \o name]

\* what the startup scan finds under resources/ and in downloads.json
DiskResources ==
    [assignments |-> <<File(<<"i","o","t","-","l","a","b",".","p","d","f">>, <<"r","e","s","o","u","r","c","e","s","/","a","s","s","i","g","n","m","e","n","t","s","/">>),
                       File(<<"c","h","b","1","0","1",".","p","d","f">>, <<"r","e","s","o","u","r","c","e","s","/","a","s","s","i","g","n","m","e","n","t","s","/">>)>>,
     notes       |-> <<File(<<"i","o","t","1",".","m","d">>, <<"r","e","s","o","u","r","c","e","s","/","n","o","t","e","s","/">>),
                       File(<<"i","o","t","2",".","m","d">>, <<"r","e","s","o","u","r","c","e","s","/","n","o","t","e","s","/">>),
                       File(<<"i","o","t","3",".","m","d">>, <<"r","e","s","o","u","r","c","e","s","/","n","o","t","e","s","/">>),
                       File(<<"I","O","T","4",".","m","d">>, <<"r","e","s","o","u","r","c","e","s","/","n","o","t","e","s","/">>)>>,
     labManuals  |-> <<File(<<"m","a","n","u","a","l",".","p","d","f">>, <<"r","e","s","o","u","r","c","e","s","/","l","a","b","-","m","a","n","u","a","l","s","/">>)>>,
     downloads   |-> <<[title |-> <<"S","e","n","s","o","r"," ","k","i","t">>, description |-> << >>, tags |-> <<<<"i","o","t">>>>],
                       [title |-> << >>, description |-> <<"O","l","d"," ","I","o","T"," ","s","l","i","d","e","s">>, tags |-> << >>],
                       [title |-> <<"S","y","l","l","a","b","u","s">>, description |-> <<"A","l","l"," ","c","o","u","r","s","e","s">>, tags |-> <<<<"p","d","f">>>>]>>]

\* the categories in the order initializeResourceDatabase fills them
DbCategories == <<"assignments", "notes", "labManuals", "downloads">>

FileMatches(file, normalizedQuery) ==
    \/ includes(toLowerCase(file.name), normalizedQuery)
    \/ includes(toLowerCase(file.path), normalizedQuery)

DownloadMatches(item, normalizedQuery) ==
    \/ (item.title # << >> /\ includes(toLowerCase(item.title), normalizedQuery))
    \/ (item.description # << >> /\ includes(toLowerCase(item.description), normalizedQuery))
    \/ \E t \in 1..Len(item.tags) : includes(toLowerCase(item.tags[t]), normalizedQuery)

SearchResults(matchingAssignments, matchingNotes, matchingLabManuals, matchingDownloads) ==
    [assignments  |-> matchingAssignments,
     notes        |-> matchingNotes,
     labManuals   |-> matchingLabManuals,
     downloads    |-> matchingDownloads,
     totalResults |-> Len(matchingAssignments) + Len(matchingNotes)
                      + Len(matchingLabManuals) + Len(matchingDownloads)]

MatchingFiles(files, normalizedQuery) == SelectSeq(files, LAMBDA f : FileMatches(f, normalizedQuery))
MatchingDownloads(items, normalizedQuery) == SelectSeq(items, LAMBDA d : DownloadMatches(d, normalizedQuery))

\* a search that compares the query as it is written
searchResourcesCaseSensitive(db, query) ==
    SearchResults(MatchingFiles(db.assignments, query),
                  MatchingFiles(db.notes, query),
                  MatchingFiles(db.labManuals, query),
                  MatchingDownloads(db.downloads, query))
searchResources(db, query) ==
    SearchResults(MatchingFiles(db.assignments, toLowerCase(query)),
                  MatchingFiles(db.notes, toLowerCase(query)),
                  MatchingFiles(db.labManuals, toLowerCase(query)),
                  MatchingDownloads(db.downloads, toLowerCase(query)))

\* the last three entries instead of the first
LastThree(list) == SubSeq(list, IF Len(list) < 3 THEN 1 ELSE Len(list) - 2, Len(list))
\* list.slice(0, 3)
FirstThree(list) == SubSeq(list, 1, IF Len(list) < 3 THEN Len(list) ELSE 3)

\* one "- n category" line of the context with its example lines
ExampleLines(examples, Label(_)) == [i \in 1..Len(examples) |-> Label(examples[i])]

CategoryLines(category, list, Label(_)) ==
    IF Len(list) > 0
    THEN <<[category |-> category, count |-> Len(list),
            examples |-> ExampleLines(FirstThree(list), Label)]>>
    ELSE << >>

\* a fact is stated when its value is truthy (0 is not)
Truthy(number) == IF number.some /\ number.val # 0 THEN number ELSE [some |-> FALSE, val |-> 0]

\* the context text of a query: the facts that are stated and, when anything
\* matches, the total and the category lines (with the extractor's answer
\* and the search results it is built from)
QueryContext(resourceInfo, searchResults) ==
    [resourceInfo |-> resourceInfo,
     searchResults |-> searchResults,
     courseCode   |-> resourceInfo.courseCode,
     unit         |-> Truthy(resourceInfo.unit),
     semester     |-> Truthy(resourceInfo.semester),
     resourceType |-> resourceInfo.resourceType,
     totalResults |-> searchResults.totalResults,
     lines        |-> IF searchResults.totalResults > 0
                      THEN CategoryLines("assignments", searchResults.assignments, LAMBDA f : f.name)
                           \o CategoryLines("notes", searchResults.notes, LAMBDA f : f.name)
                           \o CategoryLines("labManuals", searchResults.labManuals, LAMBDA f : f.name)
                           \o CategoryLines("downloads", searchResults.downloads, LAMBDA d : d.title)
                      ELSE << >>]

getQueryContext(db, query) == QueryContext(extractResourceInfo(query), searchResources(db, query))

\* the context record of the empty string
EmptyContext ==
    [resourceInfo |-> [courseCode |-> None, unit |-> [some |-> FALSE, val |-> 0],
                       semester |-> [some |-> FALSE, val |-> 0], resourceType |-> None],
     searchResults |-> SearchResults(<< >>, << >>, << >>, << >>),
     courseCode |-> None, unit |-> [some |-> FALSE, val |-> 0],
     semester |-> [some |-> FALSE, val |-> 0], resourceType |-> None,
     totalResults |-> 0, lines |-> << >>]

\* the context text is the empty string (falsy)
ContextIsEmpty(ctx) ==
    /\ ~ctx.courseCode.some
    /\ ~ctx.unit.some
    /\ ~ctx.semester.some
    /\ ~ctx.resourceType.some
    /\ ctx.totalResults = 0


(***************************************************************************)
(* server.js: state                                                        *)
(***************************************************************************)
VARIABLES
    now,               \* Date.now(), in milliseconds
    searchKey,         \* whether process.env.GOOGLE_SEARCH_API_KEY is set
    tokens,            \* rateLimits.tokens: identity -> [count, resetTime]
    resourceDatabase,  \* the resource index
    dbStage,           \* how many categories initializeResourceDatabase has filled
    task               \* per connection: the request being handled and its progress

vars == <<now, searchKey, tokens, resourceDatabase, dbStage, task>>

\* rateLimits.windowMs
windowMs == 60 * 1000
\* rateLimits.maxRequests
maxRequests == 10

\* messages.slice(-5)
HistoryWindow == 5
\* files.slice(0, 20) in scanProjectFiles
ScanFileCap == 20

(***************************************************************************)
(* Requests and responses                                                  *)
(***************************************************************************)
\* a message list entry: null, or an object with a role and a content that
\* is a string or not
NullMessage == [null |-> TRUE, role |-> "", isString |-> FALSE, text |-> << >>]
Message(role, text) == [null |-> FALSE, role |-> role, isString |-> TRUE, text |-> text]
\* an entry whose content is missing or not a string
NoTextMessage(role) == [null |-> FALSE, role |-> role, isString |-> FALSE, text |-> << >>]

\* req.body.messages: falsy ("absent"), truthy but no array ("notArray"), or an array
MessagesAbsent == [kind |-> "absent", items |-> << >>]
MessagesNotArray == [kind |-> "notArray", items |-> << >>]
MessageArray(items) == [kind |-> "array", items |-> items]

NoMessage == [role |-> "", kind |-> "", template |-> "", files |-> 0]
NoResponse == [status |-> 0, error |-> "", resetTime |-> -1, message |-> NoMessage]

\* res.json({message: {role: 'assistant', content}}): the content is named by
\* its kind (which text of the source it is), the fallback template and the
\* number of listed files
AssistantReply(kind, template, files) ==
    [status |-> 200, error |-> "", resetTime |-> -1,
     message |-> [role |-> "assistant", kind |-> kind, template |-> template, files |-> files]]

\* res.status(400).json({error})
BadRequest(error) == [status |-> 400, error |-> error, resetTime |-> -1, message |-> NoMessage]
\* a 429 body that leaves the reset time out
TooManyRequestsBare(resetTime) ==
    [status |-> 429, error |-> "Rate limit exceeded. Please try again later.",
     resetTime |-> -1, message |-> NoMessage]

\* res.status(429).json({error, resetTime})
TooManyRequests(resetTime) ==
    [status |-> 429, error |-> "Rate limit exceeded. Please try again later.",
     resetTime |-> resetTime, message |-> NoMessage]
\* an outer catch that answers 502
outerCatchBadGateway ==
    [status |-> 502, error |-> "Failed to process your request", resetTime |-> -1,
     message |-> [role |-> "assistant", kind |-> "apology", template |-> "", files |-> 0]]

\* the outer catch: res.status(500).json({error, message: {role: 'assistant', content: apology}})
outerCatch ==
    [status |-> 500, error |-> "Failed to process your request", resetTime |-> -1,
     message |-> [role |-> "assistant", kind |-> "apology", template |-> "", files |-> 0]]

NoScan == [success |-> FALSE, scannedFiles |-> 0, totalFiles |-> 0]

\* a connection with no request
IdleTask ==
    [pc |-> "idle", userId |-> "", ip |-> "", messages |-> MessagesAbsent,
     admitted |-> FALSE, thrown |-> FALSE,
     userContent |-> None, scanPath |-> << >>, pathExists |-> FALSE, scanResults |-> NoScan,
     sections |-> << >>, course |-> None, courseName |-> "", semesterPath |-> "",
     navigationInfo |-> << >>, websiteContext |-> EmptyContext, webEntries |-> 0,
     window |-> << >>,
     apiError |-> FALSE, searchError |-> FALSE,
     scanCalls |-> 0, geminiCalls |-> 0, searchCalls |-> 0, extractorCalls |-> 0,
     response |-> NoResponse]

\* a request as received
NewTask(userId, ip, messages) ==
    [IdleTask EXCEPT !.pc = "received", !.userId = userId, !.ip = ip, !.messages = messages]

\* the handler has answered: its response is sent and the request is over
Respond(t, response) == [t EXCEPT !.pc = "done", !.response = response]

\* an exception that leaves the handler: nothing is sent
ThrowPastHandler(t) == [t EXCEPT !.pc = "done", !.thrown = TRUE]
\* an exception reaches the outer catch
Throw(t) == [Respond(t, outerCatch) EXCEPT !.thrown = TRUE]

(***************************************************************************)
(* rateLimiter                                                             *)
(***************************************************************************)
\* an identity that is the network address alone
IdentityByAddress(userId, ip) == ip
\* req.body.userId || req.ip
Identity(userId, ip) == IF userId # "" THEN userId ELSE ip
\* a limiter whose admitting step only checks: the counter is left as found
rateLimiterCheckOnly(tok, userId, ip, t) ==
    LET id   == Identity(userId, ip)
        tok1 == IF id \notin DOMAIN tok
                THEN (id :> [count |-> 0, resetTime |-> t + windowMs]) @@ tok
                ELSE tok
        tok2 == IF t > tok1[id].resetTime
                THEN [tok1 EXCEPT ![id] = [count |-> 0, resetTime |-> t + windowMs]]
                ELSE tok1
    IN IF tok2[id].count >= maxRequests
       THEN [tokens |-> tok2, next |-> FALSE, resetTime |-> tok2[id].resetTime]
       ELSE [tokens |-> tok2, next |-> TRUE, resetTime |-> tok2[id].resetTime]
\* a limiter that drops the buckets of the other identities whose window
\* has passed
rateLimiterExpiring(tok, userId, ip, t) ==
    LET id   == Identity(userId, ip)
        live == {i \in DOMAIN tok : i = id \/ t <= tok[i].resetTime}
        tok0 == [i \in live |-> tok[i]]
        tok1 == IF id \notin DOMAIN tok0
                THEN (id :> [count |-> 0, resetTime |-> t + windowMs]) @@ tok0
                ELSE tok0
        tok2 == IF t > tok1[id].resetTime
                THEN [tok1 EXCEPT ![id] = [count |-> 0, resetTime |-> t + windowMs]]
                ELSE tok1
    IN IF tok2[id].count >= maxRequests
       THEN [tokens |-> tok2, next |-> FALSE, resetTime |-> tok2[id].resetTime]
       ELSE [tokens |-> [tok2 EXCEPT ![id].count = @ + 1], next |-> TRUE,
             resetTime |-> tok2[id].resetTime]
\* a limiter that starts the window anew when it rejects a request
rateLimiterPenalty(tok, userId, ip, t) ==
    LET id   == Identity(userId, ip)
        tok1 == IF id \notin DOMAIN tok
                THEN (id :> [count |-> 0, resetTime |-> t + windowMs]) @@ tok
                ELSE tok
        tok2 == IF t > tok1[id].resetTime
                THEN [tok1 EXCEPT ![id] = [count |-> 0, resetTime |-> t + windowMs]]
                ELSE tok1
    IN IF tok2[id].count >= maxRequests
       THEN [tokens |-> [tok2 EXCEPT ![id].resetTime = t + windowMs], next |-> FALSE,
             resetTime |-> t + windowMs]
       ELSE [tokens |-> [tok2 EXCEPT ![id].count = @ + 1], next |-> TRUE,
             resetTime |-> tok2[id].resetTime]
\* a limiter whose window ends at the reset time, not after it
rateLimiterResetAtEnd(tok, userId, ip, t) ==
    LET id   == Identity(userId, ip)
        tok1 == IF id \notin DOMAIN tok
                THEN (id :> [count |-> 0, resetTime |-> t + windowMs]) @@ tok
                ELSE tok
        tok2 == IF t >= tok1[id].resetTime
                THEN [tok1 EXCEPT ![id] = [count |-> 0, resetTime |-> t + windowMs]]
                ELSE tok1
    IN IF tok2[id].count >= maxRequests
       THEN [tokens |-> tok2, next |-> FALSE, resetTime |-> tok2[id].resetTime]
       ELSE [tokens |-> [tok2 EXCEPT ![id].count = @ + 1], next |-> TRUE,
             resetTime |-> tok2[id].resetTime]
\* a limiter that compares with > instead of >=: it admits one request more
rateLimiterOneMore(tok, userId, ip, t) ==
    LET id   == Identity(userId, ip)
        tok1 == IF id \notin DOMAIN tok
                THEN (id :> [count |-> 0, resetTime |-> t + windowMs]) @@ tok
                ELSE tok
        tok2 == IF t > tok1[id].resetTime
                THEN [tok1 EXCEPT ![id] = [count |-> 0, resetTime |-> t + windowMs]]
                ELSE tok1
    IN IF tok2[id].count > maxRequests
       THEN [tokens |-> tok2, next |-> FALSE, resetTime |-> tok2[id].resetTime]
       ELSE [tokens |-> [tok2 EXCEPT ![id].count = @ + 1], next |-> TRUE,
             resetTime |-> tok2[id].resetTime]

\* the middleware: the bucket map after it ran, whether next() was called,
\* and the reset time it reports
rateLimiter(tok, userId, ip, t) ==
    LET id   == Identity(userId, ip)
        tok1 == IF id \notin DOMAIN tok
                THEN (id :> [count |-> 0, resetTime |-> t + windowMs]) @@ tok
                ELSE tok
        tok2 == IF t > tok1[id].resetTime
                THEN [tok1 EXCEPT ![id] = [count |-> 0, resetTime |-> t + windowMs]]
                ELSE tok1
    IN IF tok2[id].count >= maxRequests
       THEN [tokens |-> tok2, next |-> FALSE, resetTime |-> tok2[id].resetTime]
       ELSE [tokens |-> [tok2 EXCEPT ![id].count = @ + 1], next |-> TRUE,
             resetTime |-> tok2[id].resetTime]

(***************************************************************************)
(* The POST /api/chat handler                                              *)
(***************************************************************************)
RECURSIVE firstUserMessage(_)
\* a search for the user entry from the first message on
firstUserMessage(items) ==
    IF Len(items) = 0 THEN [kind |-> "none", msg |-> NullMessage]
    ELSE LET msg == items[1]
         IN IF msg.null THEN [kind |-> "throws", msg |-> NullMessage]
            ELSE IF msg.role = "user" THEN [kind |-> "found", msg |-> msg]
            ELSE firstUserMessage(SubSeq(items, 2, Len(items)))
RECURSIVE latestUserMessage(_)
\* [...messages].reverse().find(msg => msg.role === 'user'): the entries are
\* visited from the last one; reading .role of a null entry throws
latestUserMessage(items) ==
    IF Len(items) = 0 THEN [kind |-> "none", msg |-> NullMessage]
    ELSE LET msg == items[Len(items)]
         IN IF msg.null THEN [kind |-> "throws", msg |-> NullMessage]
            ELSE IF msg.role = "user" THEN [kind |-> "found", msg |-> msg]
            ELSE latestUserMessage(SubSeq(items, 1, Len(items) - 1))

\* userContent.startsWith('/scan') || userContent.startsWith('/debug')
IsCommand(userContent) ==
    startsWith(userContent, <<"/","s","c","a","n">>) \/ startsWith(userContent, <<"/","d","e","b","u","g">>)

\* parts = userContent.split(' '); parts.length > 1 ? parts.slice(1).join(' ') : ''
ScanPathOf(userContent) ==
    LET spaces == {i \in 1..Len(userContent) : userContent[i] = " "}
    IN IF spaces = {} THEN << >>
       ELSE SubSeq(userContent, Min(spaces) + 1, Len(userContent))
\* the administrators isAuthorizedForAdminCommands knows; the handler does
\* not call it
adminUsers == {"admin", "developer"}
isAuthorizedForAdminCommands(userId) == userId \in adminUsers

\* scanProjectFiles: exists is whether stat finds the resolved path, nFound
\* the number of files scanDirectory lists under it, nUnreadable how many of
\* the files that are read cannot be read
scanProjectFiles(scanPath, exists, nFound, nUnreadable) ==
    IF ~exists THEN [success |-> FALSE, scannedFiles |-> 0, totalFiles |-> 0]
    ELSE LET filesToScan == IF nFound > ScanFileCap THEN ScanFileCap ELSE nFound
             unreadable  == IF nUnreadable > filesToScan THEN filesToScan ELSE nUnreadable
         IN [success |-> TRUE, scannedFiles |-> filesToScan - unreadable, totalFiles |-> nFound]
\* a fallback chain that looks for help before the greeting
fallbackResponseHelpFirst(userContent) ==
    LET q == toLowerCase(userContent)
    IN IF includes(q, <<"h","e","l","p">>) THEN "help"
       ELSE IF includes(q, <<"h","e","l","l","o">>) \/ includes(q, <<"h","i">>) THEN "greeting"
       ELSE IF includes(q, <<"c","o","u","r","s","e">>) \/ includes(q, <<"c","l","a","s","s">>) THEN "course"
       ELSE IF includes(q, <<"a","s","s","i","g","n","m","e","n","t">>) \/ includes(q, <<"h","o","m","e","w","o","r","k">>) THEN "assignment"
       ELSE IF includes(q, <<"r","e","s","o","u","r","c","e">>) \/ includes(q, <<"m","a","t","e","r","i","a","l">>) THEN "resource"
       ELSE "generic"
\* a fallback chain that looks for assignment/homework first
fallbackResponseAssignmentFirst(userContent) ==
    LET q == toLowerCase(userContent)
    IN IF includes(q, <<"a","s","s","i","g","n","m","e","n","t">>) \/ includes(q, <<"h","o","m","e","w","o","r","k">>) THEN "assignment"
       ELSE IF includes(q, <<"h","e","l","l","o">>) \/ includes(q, <<"h","i">>) THEN "greeting"
       ELSE IF includes(q, <<"h","e","l","p">>) THEN "help"
       ELSE IF includes(q, <<"c","o","u","r","s","e">>) \/ includes(q, <<"c","l","a","s","s">>) THEN "course"
       ELSE IF includes(q, <<"r","e","s","o","u","r","c","e">>) \/ includes(q, <<"m","a","t","e","r","i","a","l">>) THEN "resource"
       ELSE "generic"

\* the template of the fallback reply
fallbackResponse(userContent) ==
    LET q == toLowerCase(userContent)
    IN IF includes(q, <<"h","e","l","l","o">>) \/ includes(q, <<"h","i">>) THEN "greeting"
       ELSE IF includes(q, <<"h","e","l","p">>) THEN "help"
       ELSE IF includes(q, <<"c","o","u","r","s","e">>) \/ includes(q, <<"c","l","a","s","s">>) THEN "course"
       ELSE IF includes(q, <<"a","s","s","i","g","n","m","e","n","t">>) \/ includes(q, <<"h","o","m","e","w","o","r","k">>) THEN "assignment"
       ELSE IF includes(q, <<"r","e","s","o","u","r","c","e">>) \/ includes(q, <<"m","a","t","e","r","i","a","l">>) THEN "resource"
       ELSE "generic"

\* what one call of the Gemini endpoint can come to (the request declares no
\* tools, so a first part that exists is a text part)
GatewayOutcomes ==
    {"ok",             \* candidates[0].content.parts[0].text is the reply
     "transportError", \* fetch rejects
     "unparsable",     \* response.json() rejects
     "noCandidates",   \* no candidates (an error payload) or an empty list
     "noContent",      \* candidates[0] has no content
     "noParts"}        \* content has no parts: reading parts[0] throws

\* the try block around the call: whether it ends with the reply text
\* (otherwise control is in its catch)
candidateText(outcome) == outcome = "ok"

\* getCourseInfo(courseCode) when a course code was extracted
CourseInfoOf(courseCode) ==
    IF courseCode.some THEN getCourseInfo(courseCode.val) ELSE [some |-> FALSE, val |-> ""]

\* getSemesterResources(semesterMatch[1]) when the query is a navigation
\* query and the semester expression matches
SemesterResourcesOf(isNav, semesterMatch) ==
    IF isNav /\ semesterMatch.some
    THEN getSemesterResources(DigitVal(semesterMatch.val))
    ELSE [some |-> FALSE, val |-> ""]

\* a system message whose course context is written for administrators only
SystemMessageByCaller(t, courseCode, courseInfo, isNav, semResources, navigationInfo, websiteContext) ==
    [t EXCEPT
       !.sections = <<"persona">>
                    \o (IF courseCode.some /\ courseInfo.some /\ t.userId \in adminUsers
                        THEN <<"course">> ELSE << >>)
                    \o (IF isNav THEN <<"navigation">> ELSE << >>)
                    \o (IF semResources.some THEN <<"semester">> ELSE << >>)
                    \o (IF navigationInfo # << >> THEN <<"navinfo">> ELSE << >>)
                    \o (IF ~ContextIsEmpty(websiteContext) THEN <<"resources">> ELSE << >>),
       !.course = IF courseCode.some /\ courseInfo.some THEN courseCode ELSE None,
       !.courseName = IF courseCode.some /\ courseInfo.some THEN courseInfo.val ELSE "",
       !.semesterPath = semResources.val,
       !.navigationInfo = navigationInfo,
       !.websiteContext = websiteContext,
       !.extractorCalls = @ + 1]
\* the system message up to the web search: persona, course, navigation,
\* semester resources, navigation entries, website knowledge context
SystemMessage(t, courseCode, courseInfo, isNav, semResources, navigationInfo, websiteContext) ==
    [t EXCEPT
       !.sections = <<"persona">>
                    \o (IF courseCode.some /\ courseInfo.some THEN <<"course">> ELSE << >>)
                    \o (IF isNav THEN <<"navigation">> ELSE << >>)
                    \o (IF semResources.some THEN <<"semester">> ELSE << >>)
                    \o (IF navigationInfo # << >> THEN <<"navinfo">> ELSE << >>)
                    \o (IF ~ContextIsEmpty(websiteContext) THEN <<"resources">> ELSE << >>),
       !.course = IF courseCode.some /\ courseInfo.some THEN courseCode ELSE None,
       !.courseName = IF courseCode.some /\ courseInfo.some THEN courseInfo.val ELSE "",
       !.semesterPath = semResources.val,
       !.navigationInfo = navigationInfo,
       !.websiteContext = websiteContext,
       !.extractorCalls = @ + 1]

composeSystemMessage(t, db, userContent) ==
    SystemMessage(t,
                  extractCourseCode(userContent),
                  CourseInfoOf(extractCourseCode(userContent)),
                  isNavigationQuery(userContent),
                  SemesterResourcesOf(isNavigationQuery(userContent), semesterRegex(userContent)),
                  IF isNavigationQuery(userContent)
                  THEN getWebsiteNavigationInfo(userContent) ELSE << >>,
                  getQueryContext(db, userContent))

\* a window of the first messages instead of the last
firstMessages(items) ==
    SubSeq(items, 1, IF Len(items) > HistoryWindow THEN HistoryWindow ELSE Len(items))
\* messages.slice(-5)
lastMessages(items) ==
    SubSeq(items, IF Len(items) > HistoryWindow THEN Len(items) - HistoryWindow + 1 ELSE 1, Len(items))

\* the closing instructions, the conversation history and the user query,
\* then the call of the Gemini endpoint; reading .content of a null entry of
\* the window throws
completePrompt(t) ==
    LET recent == lastMessages(t.messages.items)
    IN IF \E i \in 1..Len(recent) : recent[i].null
       THEN Throw([t EXCEPT !.sections = @ \o <<"closing">>])
       ELSE [t EXCEPT !.sections = @ \o <<"closing", "history", "query">>,
                      !.window = [i \in 1..Len(recent) |->
                                     [isString |-> recent[i].isString, text |-> recent[i].text]],
                      !.pc = "gemini",
                      !.geminiCalls = @ + 1]

\* fullPrompt: the system message (its sections in the order they were
\* appended and what each is written from), the conversation history and the
\* user query
fullPrompt(t) ==
    [systemMessage |-> [sections       |-> SelectSeq(t.sections, LAMBDA x : x \notin {"history", "query"}),
                        course         |-> t.course,
                        courseName     |-> t.courseName,
                        semesterPath   |-> t.semesterPath,
                        navigationInfo |-> t.navigationInfo,
                        websiteContext |-> [courseCode   |-> t.websiteContext.courseCode,
                                            unit         |-> t.websiteContext.unit,
                                            semester     |-> t.websiteContext.semester,
                                            resourceType |-> t.websiteContext.resourceType,
                                            totalResults |-> t.websiteContext.totalResults,
                                            lines        |-> t.websiteContext.lines],
                        webEntries     |-> t.webEntries],
     conversationHistory |-> t.window,
     userContent |-> t.userContent.val]
\* after the system message is composed: the web search when the query
\* needs it, else the rest of the prompt
afterCompose(t, userContent) ==
    IF needsWebSearch(userContent)
    THEN [t EXCEPT !.pc = "websearch", !.searchCalls = @ + 1]
    ELSE completePrompt(t)

\* a handler that composes the system message before it looks for a command
dispatchExtractsFirst(t, db, userContent) ==
    IF IsCommand(userContent)
    THEN [composeSystemMessage(t, db, userContent)
            EXCEPT !.userContent = Some(userContent), !.pc = "scan",
                   !.scanPath = ScanPathOf(userContent), !.scanCalls = @ + 1]
    ELSE afterCompose(composeSystemMessage([t EXCEPT !.userContent = Some(userContent)],
                                           db, userContent),
                      userContent)
\* the handler from the command check on
dispatch(t, db, userContent) ==
    IF IsCommand(userContent)
    THEN [t EXCEPT !.userContent = Some(userContent), !.pc = "scan",
                   !.scanPath = ScanPathOf(userContent), !.scanCalls = @ + 1]
    ELSE afterCompose(composeSystemMessage([t EXCEPT !.userContent = Some(userContent)],
                                           db, userContent),
                      userContent)

\* a handler that answers 400 to a user message without a string content
withLatestValidated(t, db, latest) ==
    IF latest.kind = "throws" THEN Throw(t)
    ELSE IF latest.kind = "none" THEN Respond(t, BadRequest("No user message found"))
    ELSE IF ~latest.msg.isString THEN Respond(t, BadRequest("No user message found"))
    ELSE dispatch(t, db, trim(latest.msg.text))
\* the handler after the messages check
withLatest(t, db, latest) ==
    IF latest.kind = "throws" THEN Throw(t)
    ELSE IF latest.kind = "none" THEN Respond(t, BadRequest("No user message found"))
    ELSE IF ~latest.msg.isString THEN Throw(t)
    ELSE dispatch(t, db, trim(latest.msg.text))

\* the handler from its entry to its first await or its response
chatHandler(t, db) ==
    IF t.messages.kind # "array" THEN Respond(t, BadRequest("Messages array is required"))
    ELSE withLatest(t, db, latestUserMessage(t.messages.items))
\* a scan branch that lets a failed scan reach the outer catch
afterScanThrows(t, scanResults) ==
    LET t1 == [t EXCEPT !.scanResults = scanResults]
    IN IF ~scanResults.success THEN Throw(t1)
       ELSE IF scanResults.scannedFiles > 0
            THEN [t1 EXCEPT !.pc = "analysis", !.geminiCalls = @ + 1]
            ELSE Respond(t1, AssistantReply("scanEmpty", "", 0))

\* after await scanProjectFiles: the reply, or the file analysis call
afterScan(t, scanResults) ==
    LET t1 == [t EXCEPT !.scanResults = scanResults]
    IN IF ~scanResults.success THEN Respond(t1, AssistantReply("scanError", "", 0))
       ELSE IF scanResults.scannedFiles > 0
            THEN [t1 EXCEPT !.pc = "analysis", !.geminiCalls = @ + 1]
            ELSE Respond(t1, AssistantReply("scanEmpty", "", 0))

\* a file analysis branch whose failure reaches the outer catch
afterAnalysisThrows(t, outcome) ==
    IF candidateText(outcome)
    THEN Respond(t, AssistantReply("scanReport", "", t.scanResults.scannedFiles))
    ELSE Throw([t EXCEPT !.apiError = TRUE])
\* after the file analysis call: the report, or in its catch the file listing
afterAnalysis(t, outcome) ==
    IF candidateText(outcome)
    THEN Respond(t, AssistantReply("scanReport", "", t.scanResults.scannedFiles))
    ELSE Respond([t EXCEPT !.apiError = TRUE],
                 AssistantReply("scanListing", "", t.scanResults.scannedFiles))

\* a web search branch that writes the web section after the rest of the
\* prompt
afterWebSearchLate(t, entries) ==
    LET done == completePrompt([t EXCEPT !.webEntries = entries])
    IN [done EXCEPT !.sections = IF entries > 0 THEN @ \o <<"web">> ELSE @]
\* after await getWebSearchContext: the web section when the context is not
\* empty, then the rest of the prompt
afterWebSearch(t, entries) ==
    completePrompt([t EXCEPT !.webEntries = entries,
                             !.sections = IF entries > 0 THEN @ \o <<"web">> ELSE @])
\* a Gemini branch whose catch passes the failure on to the outer catch
afterGeminiRethrows(t, outcome) ==
    IF candidateText(outcome)
    THEN Respond(t, AssistantReply("llm", "", 0))
    ELSE Throw([t EXCEPT !.apiError = TRUE])

\* a Gemini branch that calls the endpoint a second time after a failure
afterGeminiRetries(t, outcome) ==
    IF candidateText(outcome)
    THEN Respond(t, AssistantReply("llm", "", 0))
    ELSE IF t.geminiCalls < 2
         THEN [t EXCEPT !.geminiCalls = @ + 1]
         ELSE Respond([t EXCEPT !.apiError = TRUE],
                      AssistantReply("fallback", fallbackResponse(t.userContent.val), 0))
\* after the Gemini call: the reply text, or in its catch the fallback reply
afterGemini(t, outcome) ==
    IF candidateText(outcome)
    THEN Respond(t, AssistantReply("llm", "", 0))
    ELSE Respond([t EXCEPT !.apiError = TRUE],
                 AssistantReply("fallback", fallbackResponse(t.userContent.val), 0))

(***************************************************************************)
(* Bounds and inputs                                                       *)
(***************************************************************************)
\* the clock advances in steps of one window, MaxTicks times at most
MaxTicks == 3
\* the provider returns 1..MaxItems items when it has any
MaxItems == 4
\* the words of a generated query
MaxWords == 2

tickMs == windowMs

Connections == {1}
Ips == {"10.0.0.1"}

\* the number of files a scan can find under an existing path
FoundCounts == {0, 1, ScanFileCap + 1}
\* nothing is listed under a path that does not exist
FoundCountsOf(exists) == IF exists THEN FoundCounts ELSE {0}

\* the provider returns items only in the outcome "items"
ItemCountsOf(outcome) == IF outcome = "items" THEN 1..MaxItems ELSE {0}

(***************************************************************************)
(* Actions                                                                 *)
(***************************************************************************)
\* a server that checks the messages before it counts the request
ReceiveValidatesFirst(c, userId, ip, messages) ==
    /\ task[c].pc \in {"idle", "done"}
    /\ LET rl == rateLimiter(tokens, userId, ip, now)
           t  == NewTask(userId, ip, messages)
       IN IF messages.kind # "array"
          THEN /\ tokens' = tokens
               /\ task' = [task EXCEPT ![c] = chatHandler([t EXCEPT !.admitted = TRUE],
                                                          resourceDatabase)]
          ELSE /\ tokens' = rl.tokens
               /\ task' = [task EXCEPT ![c] =
                             IF rl.next
                             THEN chatHandler([t EXCEPT !.admitted = TRUE], resourceDatabase)
                             ELSE Respond(t, TooManyRequests(rl.resetTime))]
    /\ UNCHANGED <<now, searchKey, resourceDatabase, dbStage>>
\* a request arrives on connection c: the rate limiter runs, and when it
\* calls next() the handler runs up to its first await (or its response)
Receive(c, userId, ip, messages) ==
    /\ task[c].pc \in {"idle", "done"}
    /\ LET rl == rateLimiter(tokens, userId, ip, now)
           t  == NewTask(userId, ip, messages)
       IN /\ tokens' = rl.tokens
          /\ task' = [task EXCEPT ![c] =
                        IF rl.next
                        THEN chatHandler([t EXCEPT !.admitted = TRUE], resourceDatabase)
                        ELSE Respond(t, TooManyRequests(rl.resetTime))]
    /\ UNCHANGED <<now, searchKey, resourceDatabase, dbStage>>

\* await scanProjectFiles(scanPath) returns; the project root always exists
ScanReturn(c, exists, nFound, nUnreadable) ==
    /\ task[c].pc = "scan"
    /\ task[c].scanPath = << >> => exists
    /\ task' = [task EXCEPT ![c] =
                  afterScan([task[c] EXCEPT !.pathExists = exists],
                            scanProjectFiles(task[c].scanPath, exists, nFound, nUnreadable))]
    /\ UNCHANGED <<now, searchKey, tokens, resourceDatabase, dbStage>>

\* the file analysis call of the Gemini endpoint returns
AnalysisReturn(c, outcome) ==
    /\ task[c].pc = "analysis"
    /\ task' = [task EXCEPT ![c] = afterAnalysis(task[c], outcome)]
    /\ UNCHANGED <<now, searchKey, tokens, resourceDatabase, dbStage>>

\* await getWebSearchContext(userContent) returns
WebSearchReturn(c, outcome, nItems) ==
    /\ task[c].pc = "websearch"
    /\ task' = [task EXCEPT ![c] =
                  afterWebSearch([task[c] EXCEPT !.searchError = searchFailed(searchKey, outcome)],
                      getWebSearchContext(task[c].userContent.val, searchKey, outcome, nItems))]
    /\ UNCHANGED <<now, searchKey, tokens, resourceDatabase, dbStage>>

\* the chat call of the Gemini endpoint returns
GeminiReturn(c, outcome) ==
    /\ task[c].pc = "gemini"
    /\ task' = [task EXCEPT ![c] = afterGemini(task[c], outcome)]
    /\ UNCHANGED <<now, searchKey, tokens, resourceDatabase, dbStage>>

\* initializeResourceDatabase, started at module load and not awaited by the
\* server: it fills one category after the other
initializeResourceDatabase ==
    /\ dbStage < Len(DbCategories)
    /\ dbStage' = dbStage + 1
    /\ resourceDatabase' =
          [resourceDatabase EXCEPT ![DbCategories[dbStage + 1]] = DiskResources[DbCategories[dbStage + 1]]]
    /\ UNCHANGED <<now, searchKey, tokens, task>>

\* time passes
Tick ==
    /\ now + tickMs <= MaxTicks * tickMs
    /\ now' = now + tickMs
    /\ UNCHANGED <<searchKey, tokens, resourceDatabase, dbStage, task>>

Init ==
    /\ now = 0
    /\ searchKey \in BOOLEAN
    /\ tokens = << >>
    /\ resourceDatabase = EmptyDatabase
    /\ dbStage = 0
    /\ task = [c \in Connections |-> IdleTask]

\* the awaited calls of a request in flight return
Returns(c) ==
    \/ \E exists \in BOOLEAN :
         \E nFound \in FoundCountsOf(exists), nUnreadable \in 0..1 :
            ScanReturn(c, exists, nFound, nUnreadable)
    \/ \E outcome \in GatewayOutcomes : AnalysisReturn(c, outcome)
    \/ \E outcome \in SearchOutcomes :
         \E nItems \in ItemCountsOf(outcome) : WebSearchReturn(c, outcome, nItems)
    \/ \E outcome \in GatewayOutcomes : GeminiReturn(c, outcome)

(***************************************************************************)
(* Spec: the server answering a sequence of requests of one user, over     *)
(* several rate-limit windows                                              *)
(***************************************************************************)
UserIds == {"guest"}

Assistant(text) == Message("assistant", text)
User(text) == Message("user", text)

Bodies ==
    {MessagesAbsent,
     MessagesNotArray,
     MessageArray(<< >>),
     MessageArray(<<Assistant(<<"h","i">>)>>),
     MessageArray(<<NullMessage>>),
     MessageArray(<<NoTextMessage("user")>>),
     MessageArray(<<User(<<"h","i">>), NoTextMessage("user")>>),
     MessageArray(<<User(<<"h","i">>), NullMessage>>),
     MessageArray(<<NullMessage, User(<<"c","l","a","s","s">>)>>),
     MessageArray(<<User(<<"/","s","c","a","n"," ","n","o">>)>>),
     MessageArray(<<User(<<"/","d","e","b","u","g"," ","x">>)>>),
     MessageArray(<<User(<<"h","e","l","l","o">>)>>),
     MessageArray(<<User(<<"c","l","a","s","s">>), Assistant(<<"o","k">>)>>)}

\* no request is in flight (the handler reads the clock and the resource
\* index only in the step that receives the request)
Between == \A c \in Connections : task[c].pc \in {"idle", "done"}

Next ==
    \/ \E c \in Connections, userId \in UserIds, ip \in Ips, messages \in Bodies :
          Receive(c, userId, ip, messages)
    \/ \E c \in Connections : Returns(c)
    \/ Between /\ Tick

Spec == Init /\ [][Next]_vars

(***************************************************************************)
(* SpecRL: the rate limiter over time, two identities (a supplied userId   *)
(* and the network address)                                                *)
(***************************************************************************)
UserIdsRL == {"guest", ""}

NextRL ==
    \/ \E c \in Connections, userId \in UserIdsRL, ip \in Ips :
          Receive(c, userId, ip, MessagesAbsent)
    \/ Tick

SpecRL == Init /\ [][NextRL]_vars

(***************************************************************************)
(* SpecQ: one request through the handler, its latest user message drawn   *)
(* from generated queries, while the resource index is being filled        *)
(***************************************************************************)
UserIdsQ == {"guest"}

\* course codes in and out of the table, split and unsplit, in any case
CourseWords == {<<"c","h","b","1","0","1">>, <<"C","s","e"," ","2","0","1">>, <<"i","t","c","\t","1","0","1">>, <<"m","t","h","1","0","1">>, <<"x","c","h","b","1","0","1">>}

\* semester numbers with and without ordinal, and the two words
SemesterWords == {<<"3","r","d"," ","s","e","m">>, <<"0","t","h">>, <<"3">>, <<"1","3">>, <<"s","e","m">>, <<"1","s","t"," ","S","e","m","e","s","t","e","r">>}

\* the fallback keywords and words containing them
FallbackWords == {<<"h","e","l","l","o">>, <<"t","h","i","s">>, <<"h","e","l","p">>, <<"c","l","a","s","s">>, <<"a","s","s","i","g","n","m","e","n","t">>, <<"m","a","t","e","r","i","a","l">>}

\* commands and paths
CommandWords == {<<"/","s","c","a","n">>, <<"/","d","e","b","u","g">>, <<"/","s","c","a","n","n","e","r">>, <<"s","r","c">>}

\* resource index and navigation queries
ResourceWords == {<<"i","o","t">>, <<"u","n","i","t"," ","2">>, <<"n","o","t","e","s">>, <<"l","a","b"," ","m","a","n","u","a","l","s">>, <<"c","s","e">>, <<"l","a","t","e","s","t">>}

WordFamilies == {CourseWords, SemesterWords, FallbackWords, CommandWords, ResourceWords}

RECURSIVE Phrases(_, _)
\* the texts of 1..n words of one family, joined by single spaces
Phrases(words, n) ==
    IF n = 1 THEN words
    ELSE Phrases(words, n - 1) \cup {p \o <<" ">> \o w : p \in Phrases(words, n - 1), w \in words}

Queries == UNION {Phrases(words, MaxWords) : words \in WordFamilies}

BodiesQ ==
    {MessageArray(<<User(q)>>) : q \in Queries}
    \cup {MessageArray(<<User(<<"/","s","c","a","n"," ","s","r","c">>), Assistant(<<"a","1">>), Assistant(<<"a","2">>),
                         Assistant(<<"a","3">>), Assistant(<<"a","4">>), Assistant(<<"a","5">>)>>),
          MessageArray(<<User(<<"o","l","d">>), Assistant(<<"a","1">>), User(<<" ","C","H","B"," ","1","0","1"," ">>), Assistant(<<"a","2">>)>>),
          MessageArray(<<User(<<"u","1">>), User(<<"u","2">>), User(<<"u","3">>), User(<<"u","4">>),
                         User(<<"u","5">>), User(<<"u","6">>), User(<<"w","h","e","r","e"," ","i","s"," ","c","h","b","1","0","1"," ","3","r","d"," ","s","e","m">>)>>)}

NextQ ==
    \/ \E c \in Connections, userId \in UserIdsQ, ip \in Ips, messages \in BodiesQ :
          task[c].pc = "idle" /\ Receive(c, userId, ip, messages)
    \/ \E c \in Connections : Returns(c)
    \/ Between /\ initializeResourceDatabase

SpecQ == Init /\ [][NextQ]_vars

(***************************************************************************)
(* SpecD: two requests, of different callers and at different times, that  *)
(* find the resource index in the same state, up to their prompts          *)
(***************************************************************************)
ConnectionsD == {1, 2}

\* the caller on each connection
UserIdD == <<"guest", "admin">>

BodiesD ==
    {MessageArray(<<User(<<"c","h","b","1","0","1"," ","i","o","t">>)>>),
     MessageArray(<<User(<<"w","h","e","r","e"," ","i","s"," ","3","r","d"," ","s","e","m">>)>>),
     MessageArray(<<User(<<"c","l","a","s","s">>)>>),
     MessageArray(<<User(<<"o","l","d">>), Assistant(<<"a","1">>), User(<<"c","l","a","s","s">>)>>)}

InitD ==
    /\ now = 0
    /\ searchKey \in BOOLEAN
    /\ tokens = << >>
    /\ resourceDatabase = EmptyDatabase
    /\ dbStage = 0
    /\ task = [c \in ConnectionsD |-> IdleTask]

\* no request has arrived yet
NotStarted == \A c \in ConnectionsD : task[c].pc = "idle"

\* the index is filled before the first request arrives, so that both
\* requests read the same index; connection 1 has the earlier request; the
\* clock advances until the later one arrives; the requests are followed up
\* to the Gemini call that carries the prompt
NextD ==
    \/ \E c \in ConnectionsD, ip \in Ips, messages \in BodiesD :
          /\ task[c].pc = "idle"
          /\ c = 2 => task[1].pc # "idle"
          /\ Receive(c, UserIdD[c], ip, messages)
    \/ \E c \in ConnectionsD, outcome \in SearchOutcomes :
          \E nItems \in ItemCountsOf(outcome) : WebSearchReturn(c, outcome, nItems)
    \/ NotStarted /\ initializeResourceDatabase
    \/ task[2].pc = "idle" /\ Tick

SpecD == InitD /\ [][NextD]_vars
(***************************************************************************)
(* SpecS: one request whose query is searched in the resource index, while *)
(* the index is being filled                                               *)
(***************************************************************************)
\* names, paths, titles, descriptions and tags of the index in part and in
\* other case, a text that is nowhere, and the empty query
SearchQueries ==
    {<<"i","o","t">>, <<"I","O","T">>, <<"I","o","t","1">>, <<"p","d","f">>, <<"r","e","s","o","u","r","c","e","s","/","n","o","t","e","s","/">>, <<"s","e","n","s","o","r">>, <<"s","l","i","d","e","s">>,
     <<"a","l","l"," ","c","o","u","r","s","e","s">>, <<"M","A","N","U","A","L">>, <<"m","d">>, <<"z","z","z">>, <<" ">>}

BodiesS == {MessageArray(<<User(q)>>) : q \in SearchQueries}

NextS ==
    \/ \E c \in Connections, userId \in UserIdsQ, ip \in Ips, messages \in BodiesS :
          task[c].pc = "idle" /\ Receive(c, userId, ip, messages)
    \/ \E c \in Connections, outcome \in SearchOutcomes :
          \E nItems \in ItemCountsOf(outcome) : WebSearchReturn(c, outcome, nItems)
    \/ \E c \in Connections, outcome \in GatewayOutcomes : GeminiReturn(c, outcome)
    \/ Between /\ initializeResourceDatabase

SpecS == Init /\ [][NextS]_vars
(***************************************************************************)
(* SpecC: requests of one identity on two connections, arriving while      *)
(* others are in flight, over several rate-limit windows                   *)
(***************************************************************************)
ConnectionsC == {1, 2}

\* a request answered at once (400) and one that awaits the Gemini call
BodiesC == {MessagesAbsent, MessageArray(<<User(<<"c","l","a","s","s">>)>>)}

InitC ==
    /\ now = 0
    /\ searchKey \in BOOLEAN
    /\ tokens = << >>
    /\ resourceDatabase = EmptyDatabase
    /\ dbStage = 0
    /\ task = [c \in ConnectionsC |-> IdleTask]

\* the event loop runs one callback at a time to its end: the middleware
\* with the handler up to its first await, or the continuation of an await
NextC ==
    \/ \E c \in ConnectionsC, userId \in UserIds, ip \in Ips, messages \in BodiesC :
          Receive(c, userId, ip, messages)
    \/ \E c \in ConnectionsC, outcome \in GatewayOutcomes : GeminiReturn(c, outcome)
    \/ Tick

SpecC == InitC /\ [][NextC]_vars
(***************************************************************************)
(* Properties                                                              *)
(***************************************************************************)
\* the request on connection c has been answered
Answered(c) == task[c].pc = "done"

\* the identity the rate limiter uses for the request on connection c
Requester(c) == Identity(task[c].userId, task[c].ip)

\* the request on c made none of the calls of the handler
NoCalls(c) ==
    /\ task[c].scanCalls = 0
    /\ task[c].geminiCalls = 0
    /\ task[c].searchCalls = 0
    /\ task[c].extractorCalls = 0

\* req.body.messages is no array, or an array without an entry of role user
NoUserEntry(messages) ==
    \/ messages.kind # "array"
    \/ \A i \in 1..Len(messages.items) :
          messages.items[i].null \/ messages.items[i].role # "user"

\* the chat call of the Gemini endpoint failed for the request on c
GatewayFailed(c) == Answered(c) /\ task[c].apiError /\ task[c].scanCalls = 0

\* the lower-cased query of the request on c contains word
Asks(c, word) == includes(toLowerCase(task[c].userContent.val), word)

FallbackKeywords ==
    {<<"h","e","l","l","o">>, <<"h","i">>, <<"h","e","l","p">>, <<"c","o","u","r","s","e">>, <<"c","l","a","s","s">>, <<"a","s","s","i","g","n","m","e","n","t">>,
     <<"h","o","m","e","w","o","r","k">>, <<"r","e","s","o","u","r","c","e">>, <<"m","a","t","e","r","i","a","l">>}

\* the contents a 200 response carries
TextKinds == {"llm", "fallback", "scanError", "scanEmpty", "scanReport", "scanListing"}

\* C1: a step in which a request of one identity passes the rate limiter:
\* the identity's first request, and the first request after its window has
\* elapsed, are admitted and leave its counter at 1 in a new window; inside
\* the window a request is admitted and counted while the counter is below
\* maxRequests (so the first 10 are), and answered 429 once it has reached
\* maxRequests (the 11th)
C1_RateLimitWindow ==
    [][\A c \in Connections :
          (/\ task[c].pc \in {"idle", "done"}
           /\ task'[c].pc = "done"
           /\ now' = now
           /\ \A d \in Connections \ {c} : task'[d] = task[d])
          => LET id       == Identity(task'[c].userId, task'[c].ip)
                 fresh    == id \notin DOMAIN tokens
                 elapsed  == ~fresh /\ now > tokens[id].resetTime
                 inWindow == ~fresh /\ now <= tokens[id].resetTime
             IN /\ (fresh \/ elapsed)
                   => /\ task'[c].admitted
                      /\ task'[c].response.status # 429
                      /\ tokens'[id] = [count |-> 1, resetTime |-> now + windowMs]
                /\ (inWindow /\ tokens[id].count < maxRequests)
                   => /\ task'[c].admitted
                      /\ task'[c].response.status # 429
                      /\ tokens'[id] = [count |-> tokens[id].count + 1,
                                        resetTime |-> tokens[id].resetTime]
                /\ (inWindow /\ tokens[id].count >= maxRequests)
                   => /\ ~task'[c].admitted
                      /\ task'[c].response.status = 429
                /\ tokens'[id].count \in 1..maxRequests
      ]_vars

\* an identity whose 11th request of a window was answered 429, and whose
\* window has since elapsed
C1_Witness ==
    \E c \in Connections :
       /\ Answered(c)
       /\ task[c].response.status = 429
       /\ tokens[Requester(c)].count = maxRequests
       /\ now > tokens[Requester(c)].resetTime

\* C2: when the chat call of the Gemini endpoint fails (transport error,
\* unparsable body, or a payload without candidates[0].content or parts), the
\* request is answered with status 200 and an assistant message that is the
\* fallback reply
C2_GatewayFailureIs200 ==
    \A c \in Connections :
       GatewayFailed(c)
       => /\ task[c].response.status = 200
          /\ task[c].response.error = ""
          /\ task[c].response.message.role = "assistant"
          /\ task[c].response.message.kind = "fallback"
          /\ ~task[c].thrown

\* a request for "hello" whose Gemini call failed and that was answered 200
C2_Witness ==
    \E c \in Connections :
       /\ GatewayFailed(c)
       /\ task[c].userContent.val = <<"h","e","l","l","o">>
       /\ task[c].response.status = 200
       /\ task[c].response.message.template = "greeting"

\* C3 as amended: when the Gemini call fails, a query containing "hello"
\* gets the greeting template; a query containing "assignment" and none of
\* "hello", "hi", "help", "course", "class" gets the assignment template; a
\* query containing none of the fallback keywords gets the generic template
\* (the query compared in lower case)
C3_FallbackTemplates ==
    \A c \in Connections :
       GatewayFailed(c)
       => /\ Asks(c, <<"h","e","l","l","o">>) => task[c].response.message.template = "greeting"
          /\ (/\ Asks(c, <<"a","s","s","i","g","n","m","e","n","t">>)
              /\ ~\E w \in {<<"h","e","l","l","o">>, <<"h","i">>, <<"h","e","l","p">>, <<"c","o","u","r","s","e">>, <<"c","l","a","s","s">>} : Asks(c, w))
             => task[c].response.message.template = "assignment"
          /\ (~\E w \in FallbackKeywords : Asks(c, w))
             => task[c].response.message.template = "generic"

\* a failed Gemini call for "assignment material", answered with the
\* assignment template
C3_Witness ==
    \E c \in Connections :
       /\ GatewayFailed(c)
       /\ task[c].userContent.val = <<"a","s","s","i","g","n","m","e","n","t"," ","m","a","t","e","r","i","a","l">>
       /\ task[c].response.message.template = "assignment"

\* C3 as stated: when the Gemini call fails, every query containing "hello"
\* gets the greeting template, every query containing "assignment" the
\* assignment template, and every query without a fallback keyword the
\* generic template
C3_Original ==
    \A c \in Connections :
       GatewayFailed(c)
       => /\ Asks(c, <<"h","e","l","l","o">>) => task[c].response.message.template = "greeting"
          /\ Asks(c, <<"a","s","s","i","g","n","m","e","n","t">>) => task[c].response.message.template = "assignment"
          /\ (~\E w \in FallbackKeywords : Asks(c, w))
             => task[c].response.message.template = "generic"

\* C4 as stated: an admitted request whose messages are absent, no array, or
\* an array without an entry of role user is answered 400 without an
\* assistant message, and none of the extractor, scan, web search and Gemini
\* calls is made for it
C4_MalformedIs400 ==
    \A c \in Connections :
       (Answered(c) /\ task[c].admitted /\ NoUserEntry(task[c].messages))
       => /\ task[c].response.status = 400
          /\ task[c].response.message = NoMessage
          /\ NoCalls(c)

\* the request {"messages": [null]} answered 500 with the apology message
C4_Witness ==
    \E c \in Connections :
       /\ Answered(c)
       /\ task[c].admitted
       /\ task[c].messages = MessageArray(<<NullMessage>>)
       /\ task[c].response.status = 500
       /\ task[c].response.message.role = "assistant"

\* C5: a request whose latest user message is a /scan or /debug command with
\* a path that does not exist is answered 200 with the assistant message
\* "Scan Error"; it is not answered 500 and no call of the Gemini endpoint is
\* made for it
C5_MissingPathIsScanError ==
    \A c \in Connections :
       (/\ Answered(c)
        /\ task[c].userContent.some
        /\ IsCommand(task[c].userContent.val)
        /\ task[c].scanPath # << >>
        /\ ~task[c].pathExists)
       => /\ task[c].response.status = 200
          /\ task[c].response.message.role = "assistant"
          /\ task[c].response.message.kind = "scanError"
          /\ task[c].geminiCalls = 0
          /\ ~task[c].thrown

\* "/scan no" for a path that does not exist, answered with the scan error
C5_Witness ==
    \E c \in Connections :
       /\ Answered(c)
       /\ task[c].userContent.some
       /\ task[c].userContent.val = <<"/","s","c","a","n"," ","n","o">>
       /\ task[c].scanCalls = 1
       /\ ~task[c].pathExists
       /\ task[c].response.message.kind = "scanError"

\* C6: every response has status 200, 400, 429 or 500; a 200 response is
\* {message: {role: 'assistant', content: text}}; a 429 is a rejection by the
\* rate limiter, a 400 an admitted request without a messages array or
\* without a user message, a 500 an exception that reached the outer catch
C6_StatusesAndShape ==
    \A c \in Connections :
       Answered(c)
       => /\ task[c].response.status \in {200, 400, 429, 500}
          /\ task[c].response.status = 200
             => /\ task[c].response.error = ""
                /\ task[c].response.resetTime = -1
                /\ task[c].response.message.role = "assistant"
                /\ task[c].response.message.kind \in TextKinds
                /\ task[c].admitted
                /\ ~task[c].thrown
          /\ task[c].response.status = 429 => ~task[c].admitted
          /\ task[c].response.status = 400
             => task[c].admitted /\ ~task[c].thrown /\ NoUserEntry(task[c].messages)
          /\ task[c].response.status = 500 => task[c].admitted /\ task[c].thrown

\* a user message without a string content, answered 500 from the outer catch
C6_Witness ==
    \E c \in Connections :
       /\ Answered(c)
       /\ task[c].messages = MessageArray(<<NoTextMessage("user")>>)
       /\ task[c].thrown
       /\ task[c].response.status = 500

\* C7: a request the rate limiter rejects is answered 429 with an error text
\* and the reset time of its identity's window; the handler is not entered:
\* no extractor, scan, web search or Gemini call is made and the response
\* carries no assistant message
C7_RejectedRequest ==
    \A c \in Connections :
       (Answered(c) /\ ~task[c].admitted)
       => /\ task[c].response.status = 429
          /\ task[c].response.error # ""
          /\ task[c].response.resetTime = tokens[Requester(c)].resetTime
          /\ task[c].response.message = NoMessage
          /\ NoCalls(c)
          /\ ~task[c].userContent.some
          /\ task[c].sections = << >>

\* a well-formed request rejected in a window that began after the first one
C7_Witness ==
    \E c \in Connections :
       /\ Answered(c)
       /\ ~task[c].admitted
       /\ task[c].messages = MessageArray(<<User(<<"h","e","l","l","o">>)>>)
       /\ task[c].response.status = 429
       /\ task[c].response.resetTime > windowMs

\* C8 as stated: a request whose userId is no administrator triggers no
\* project file scan and no file analysis call
C8_AdminOnly ==
    \A c \in Connections :
       ~isAuthorizedForAdminCommands(task[c].userId)
       => task[c].scanCalls = 0 /\ task[c].pc # "analysis"

\* the user "guest" has had the project scanned and the file analysis call made
C8_Witness ==
    \E c \in Connections :
       /\ task[c].userId = "guest"
       /\ task[c].scanCalls = 1
       /\ task[c].scanResults.success
       /\ task[c].pc = "analysis"

\* code stands in q at position i as a word: its letters in any case, w
\* whitespace characters, its digits
CodeStandsAt(q, code, i, w) ==
    /\ WordBoundary(q, i)
    /\ OccursAtI(q, toLowerCase(SubSeq(code, 1, 3)), i)
    /\ AllSpaces(q, i + 3, w)
    /\ OccursAt(q, SubSeq(code, 4, 6), i + 3 + w)
    /\ WordBoundary(q, i + 6 + w)

ContainsCourseCode(q, code) ==
    \E i \in 1..Len(q), w \in 0..Len(q) : CodeStandsAt(q, code, i, w)

\* C9 as stated: for a query that contains a course code of the course
\* table, extractCourseCode returns such a code and the composed prompt has
\* the course section with that course's name
C9_KnownCourseExtracted ==
    \A c \in Connections :
       (/\ task[c].userContent.some
        /\ task[c].extractorCalls > 0
        /\ \E code \in CourseCodes : ContainsCourseCode(task[c].userContent.val, code))
       => /\ extractCourseCode(task[c].userContent.val).some
          /\ ContainsCourseCode(task[c].userContent.val,
                                extractCourseCode(task[c].userContent.val).val)
          /\ task[c].course = extractCourseCode(task[c].userContent.val)
          /\ task[c].courseName = courseDatabase[task[c].course.val].name
          /\ \E i \in 1..Len(task[c].sections) : task[c].sections[i] = "course"

\* "mth101 chb101": CHB101 is in the table, no code is extracted and the
\* prompt has no course section
C9_Witness ==
    \E c \in Connections :
       /\ task[c].userContent.some
       /\ task[c].userContent.val = <<"m","t","h","1","0","1"," ","c","h","b","1","0","1">>
       /\ task[c].extractorCalls = 1
       /\ ~extractCourseCode(task[c].userContent.val).some
       /\ ~task[c].course.some
       /\ \A i \in 1..Len(task[c].sections) : task[c].sections[i] # "course"

\* a digit standing alone at position i of q, followed by an optional
\* ordinal suffix, whitespace and the word sem or semester (in any case)
SemesterPhraseAt(q, i) ==
    /\ WordBoundary(q, i)
    /\ AllDigits(q, i, 1)
    /\ \E sfx \in {<< >>} \cup OrdinalSuffixes, w \in 1..Len(q), word \in {<<"s","e","m">>, <<"s","e","m","e","s","t","e","r">>} :
          /\ OccursAtI(q, sfx, i + 1)
          /\ AllSpaces(q, i + 1 + Len(sfx), w)
          /\ OccursAtI(q, word, i + 1 + Len(sfx) + w)
          /\ WordBoundary(q, i + 1 + Len(sfx) + w + Len(word))

SemesterPhrases(q) == {i \in 1..Len(q) : SemesterPhraseAt(q, i)}

\* the extractor's answer for q is the digit of the leftmost phrase, or
\* null without a phrase, and lies in digits
LeftmostSemester(q, phrases, semester, digits) ==
    /\ phrases # {} => semester = [some |-> TRUE, val |-> DigitVal(q[Min(phrases)])]
    /\ phrases = {} => ~semester.some
    /\ semester.some => semester.val \in digits

\* the extractor's answer for q is the digit of every phrase, and lies in digits
EverySemester(q, phrases, semester, digits) ==
    /\ \A i \in phrases : semester = [some |-> TRUE, val |-> DigitVal(q[i])]
    /\ semester.some => semester.val \in digits

Prompted(c) == task[c].scanCalls = 0 /\ task[c].geminiCalls = 1

\* C11: two requests with the same message list (and so the same query) that
\* read the same resource index and navigation table and got the same web
\* search result have the same prompt, whoever the callers are, whenever the
\* requests arrive and whatever the rate limiter holds
C11_PromptDeterministic ==
    \A c1, c2 \in ConnectionsD :
       (/\ Prompted(c1)
        /\ Prompted(c2)
        /\ task[c1].messages = task[c2].messages
        /\ task[c1].webEntries = task[c2].webEntries)
       => fullPrompt(task[c1]) = fullPrompt(task[c2])

\* the guest's and, a window later, the administrator's request for
\* "chb101 iot", both with a course context and three web results
C11_Witness ==
    /\ Prompted(1)
    /\ Prompted(2)
    /\ task[1].messages = task[2].messages
    /\ task[1].userId # task[2].userId
    /\ task[1].userContent.val = <<"c","h","b","1","0","1"," ","i","o","t">>
    /\ task[1].webEntries = 3
    /\ task[2].webEntries = 3
    /\ task[1].course.some
    /\ now > 0
    /\ tokens["guest"].resetTime # tokens["admin"].resetTime

\* q occurs in text when case is ignored (a text that is absent has no part)
OccursIgnoringCase(text, q) ==
    /\ text # << >>
    /\ \E i \in 0..(Len(text) - Len(q)) :
          \A k \in 1..Len(q) : toLowerChar(text[i + k]) = toLowerChar(q[k])

\* found holds the entries of indexed at the positions wanted, in their order
ExactlyAt(found, indexed, wanted) ==
    /\ Len(found) = Cardinality(wanted)
    /\ \A i \in wanted :
          found[Cardinality({j \in wanted : j <= i})] = indexed[i]

\* the positions of the files of a category that match q by name or path
FilesFor(files, q) ==
    {i \in 1..Len(files) :
        OccursIgnoringCase(files[i].name, q) \/ OccursIgnoringCase(files[i].path, q)}

\* the positions of the downloads that match q by title, description or tag
DownloadsFor(items, q) ==
    {i \in 1..Len(items) :
        \/ OccursIgnoringCase(items[i].title, q)
        \/ OccursIgnoringCase(items[i].description, q)
        \/ \E t \in 1..Len(items[i].tags) : OccursIgnoringCase(items[i].tags[t], q)}

\* results is what the claim says of a search of db for q
SearchIsExact(db, q, results) ==
    /\ ExactlyAt(results.assignments, db.assignments, FilesFor(db.assignments, q))
    /\ ExactlyAt(results.notes, db.notes, FilesFor(db.notes, q))
    /\ ExactlyAt(results.labManuals, db.labManuals, FilesFor(db.labManuals, q))
    /\ ExactlyAt(results.downloads, db.downloads, DownloadsFor(db.downloads, q))
    /\ results.totalResults = Len(results.assignments) + Len(results.notes)
                              + Len(results.labManuals) + Len(results.downloads)

\* C12: in the step in which the handler searches the resource index for a
\* query, each of the four result lists holds exactly the indexed entries of
\* its category that contain the query when case is ignored (in the name or
\* path of a file; in the title, description or a tag of a download), and
\* totalResults is the sum of the four lengths
C12_SearchIsExact ==
    [][\A c \in Connections :
          (task[c].extractorCalls = 0 /\ task'[c].extractorCalls = 1)
          => SearchIsExact(resourceDatabase, task'[c].userContent.val,
                           task'[c].websiteContext.searchResults)]_vars

\* the query "IOT" against the filled index: the download tagged "iot" is
\* among the downloads found, with the assignment and the four notes whose
\* names contain it
C12_Witness ==
    \E c \in Connections :
       /\ task[c].extractorCalls = 1
       /\ task[c].userContent.val = <<"I","O","T">>
       /\ \E i \in 1..Len(task[c].websiteContext.searchResults.downloads) :
             task[c].websiteContext.searchResults.downloads[i].tags = <<<<"i","o","t">>>>
       /\ Len(task[c].websiteContext.searchResults.notes) = 4
       /\ task[c].websiteContext.searchResults.totalResults = 7

\* the counter of identity id as a request arriving now finds it: 0 without
\* a bucket or after its window
CountFound(id) ==
    IF id \notin DOMAIN tokens \/ now > tokens[id].resetTime THEN 0 ELSE tokens[id].count

\* the counter of identity id after the step
CountLeft(id) == IF id \in DOMAIN tokens' THEN tokens'[id].count ELSE 0

\* the step admits a request of identity id
Admits(id) ==
    \E c \in ConnectionsC :
       /\ task[c].pc \in {"idle", "done"}
       /\ now' = now
       /\ task'[c] # task[c] \/ tokens' # tokens
       /\ task'[c].admitted
       /\ Identity(task'[c].userId, task'[c].ip) = id

NullBeforeUser(items) ==
    \E i \in 1..Len(items) :
       /\ items[i].null
       /\ \A j \in (i + 1)..Len(items) : items[j].role # "user"

\* the last entry of role user in items (there is one, and no null after it)
LastUser(items) ==
    items[Max({i \in 1..Len(items) : ~items[i].null /\ items[i].role = "user"})]

\* the handler raises an exception for the message array items, outside the
\* scan and Gemini try blocks: .role of a null entry, .trim() of a content
\* that is no string, or, in a chat request, .content of a null entry among
\* the last 5
Faulty(items) ==
    \/ NullBeforeUser(items)
    \/ /\ \E i \in 1..Len(items) : ~items[i].null /\ items[i].role = "user"
       /\ \/ ~LastUser(items).isString
          \/ /\ ~IsCommand(trim(LastUser(items).text))
             /\ \E i \in 1..Len(items) :
                   i > Len(items) - HistoryWindow /\ items[i].null

\* C14: a request for which the handler raises such an exception is answered
\* by the handler itself, with status 500 and a body that has the error
\* text and an assistant message carrying the apology; no other admitted
\* request is answered 500
C14_ExceptionIs500 ==
    \A c \in Connections :
       (Answered(c) /\ task[c].admitted /\ task[c].messages.kind = "array")
       => /\ task[c].thrown <=> Faulty(task[c].messages.items)
          /\ task[c].thrown <=> task[c].response.status = 500
          /\ task[c].thrown
             => /\ task[c].response.error = "Failed to process your request"
                /\ task[c].response.message.role = "assistant"
                /\ task[c].response.message.kind = "apology"

\* the request [null, "class"]: its prompt was being composed when reading
\* the history raised the exception; it is answered 500 with the apology
C14_Witness ==
    \E c \in Connections :
       /\ Answered(c)
       /\ task[c].thrown
       /\ task[c].extractorCalls = 1
       /\ task[c].geminiCalls = 0
       /\ task[c].messages.items[1].null
       /\ task[c].response.status = 500
       /\ task[c].response.message.kind = "apology"

\* the sections of a prompt in their order: persona, course context,
\* navigation context (the navigation sentence, the semester resources, the
\* navigation entries), resource-search context, web-search context, closing
\* instructions, conversation window, user query
SectionOrder ==
    <<"persona", "course", "navigation", "semester", "navinfo", "resources", "web",
      "closing", "history", "query">>

\* the place of a section in that order
\* (1..Len(SectionOrder); 0 for a text that is no section)
Place(section) ==
    IF \E k \in 1..Len(SectionOrder) : SectionOrder[k] = section
    THEN CHOOSE k \in 1..Len(SectionOrder) : SectionOrder[k] = section
    ELSE 0

\* C15: in every composed prompt the sections follow each other in the fixed
\* order (so none appears twice), and the closing instructions, the
\* conversation window and the user query are present
C15_SectionOrder ==
    \A c \in Connections :
       Prompted(c)
       => /\ \A i \in 1..Len(task[c].sections) : Place(task[c].sections[i]) > 0
          /\ \A i, j \in 1..Len(task[c].sections) :
                i < j => Place(task[c].sections[i]) < Place(task[c].sections[j])
          /\ \A section \in {"closing", "history", "query"} :
                \E i \in 1..Len(task[c].sections) : task[c].sections[i] = section

\* "where is chb101 3rd sem" with web results: a prompt with every section
C15_Witness ==
    \E c \in Connections :
       /\ Prompted(c)
       /\ task[c].webEntries > 0
       /\ task[c].sections = SectionOrder

\* C16: the conversation window of a composed prompt holds the contents of
\* the last min(5, n) of the n messages of the request, in their order (so
\* no message before the last 5 is in it), and is followed by the user
\* query, which is the trimmed content of the latest user message
C16_HistoryWindow ==
    \A c \in Connections :
       Prompted(c)
       => LET items  == task[c].messages.items
              n      == Len(items)
              window == task[c].window
          IN /\ Len(window) = IF n < 5 THEN n ELSE 5
             /\ \A k \in 1..Len(window) :
                   /\ window[k].isString = items[n - Len(window) + k].isString
                   /\ window[k].text = items[n - Len(window) + k].text
             /\ SubSeq(task[c].sections, Len(task[c].sections) - 1, Len(task[c].sections))
                   = <<"history", "query">>
             /\ task[c].userContent.val = trim(LastUser(items).text)

\* the request of 7 messages: the window is u3 .. u6 and the query message,
\* u1 and u2 are not in it
C16_Witness ==
    \E c \in Connections :
       /\ Prompted(c)
       /\ Len(task[c].messages.items) = 7
       /\ Len(task[c].window) = 5
       /\ task[c].window[1].text = <<"u","3">>
       /\ task[c].window[5].text = <<"w","h","e","r","e"," ","i","s"," ","c","h","b","1","0","1"," ","3","r","d"," ","s","e","m">>
       /\ \A k \in 1..5 : task[c].window[k].text \notin {<<"u","1">>, <<"u","2">>}

\* C17: a request calls the Gemini endpoint at most once: while it awaits
\* the chat call or the file analysis call that is its only call, and a
\* request whose call failed is answered, with the fallback reply or the
\* file listing, with that one call made
C17_OneGatewayCall ==
    \A c \in Connections :
       /\ task[c].geminiCalls <= 1
       /\ task[c].pc \in {"gemini", "analysis"} => task[c].geminiCalls = 1
       /\ task[c].apiError
          => /\ Answered(c)
             /\ task[c].geminiCalls = 1
             /\ task[c].response.status = 200
             /\ task[c].response.message.kind \in {"fallback", "scanListing"}
       /\ (Answered(c) /\ task[c].response.message.kind \in {"fallback", "scanListing"})
          => task[c].apiError

\* a scan whose file analysis call failed: answered with the file listing
\* after one call
C17_Witness ==
    \E c \in Connections :
       /\ Answered(c)
       /\ task[c].apiError
       /\ task[c].scanCalls = 1
       /\ task[c].geminiCalls = 1
       /\ task[c].response.message.kind = "scanListing"

\* text begins with token
BeginsWith(text, token) ==
    Len(text) >= Len(token) /\ SubSeq(text, 1, Len(token)) = token

\* path is the part of text after its first space (empty without a space)
AfterFirstSpace(text, path) ==
    IF \E i \in 1..Len(text) : text[i] = " "
    THEN \E i \in 1..Len(text) :
            /\ text[i] = " "
            /\ \A j \in 1..(i - 1) : text[j] # " "
            /\ path = SubSeq(text, i + 1, Len(text))
    ELSE path = << >>

\* the request on c is handled as a command: the scan is called, once, and
\* neither the extractors, the web search nor the chat call of the Gemini
\* endpoint; no prompt is composed
CommandOnly(c) ==
    /\ task[c].scanCalls = 1
    /\ task[c].extractorCalls = 0
    /\ task[c].searchCalls = 0
    /\ task[c].sections = << >>
    /\ task[c].window = << >>
    /\ task[c].pc \in {"scan", "analysis", "done"}
    /\ Answered(c) => task[c].response.message.kind
                         \in {"scanError", "scanEmpty", "scanReport", "scanListing"}

\* C18: a request whose trimmed latest user message begins with /scan or
\* /debug is handled as a command only, the scan path being the text after
\* the first space and, when there is none, the empty path, which is the
\* project root and exists; a request whose message begins with neither
\* never calls the scan
C18_DispatchExclusive ==
    \A c \in Connections :
       task[c].userContent.some
       => IF \/ BeginsWith(task[c].userContent.val, <<"/","s","c","a","n">>)
             \/ BeginsWith(task[c].userContent.val, <<"/","d","e","b","u","g">>)
          THEN /\ CommandOnly(c)
               /\ AfterFirstSpace(task[c].userContent.val, task[c].scanPath)
               /\ (task[c].scanPath = << >> /\ task[c].pc # "scan") => task[c].scanResults.success
          ELSE /\ task[c].scanCalls = 0
               /\ task[c].extractorCalls = 1
               /\ task[c].pc # "scan" /\ task[c].pc # "analysis"

\* "/scanner src": a command, its scan of src done and answered
C18_Witness ==
    \E c \in Connections :
       /\ Answered(c)
       /\ task[c].userContent.val = <<"/","s","c","a","n","n","e","r"," ","s","r","c">>
       /\ task[c].scanPath = <<"s","r","c">>
       /\ CommandOnly(c)

\* C19: after a successful scan of a command, the Gemini endpoint is called
\* if and only if the scan returned at least one file; without a file the
\* reply says that none was found; and when the call fails the request is
\* answered with status 200 and the scan header followed by the listing of
\* the returned files
C19_AnalysisIffFiles ==
    \A c \in Connections :
       (task[c].scanCalls = 1 /\ task[c].pc # "scan" /\ task[c].scanResults.success)
       => /\ task[c].geminiCalls = 1 <=> task[c].scanResults.scannedFiles > 0
          /\ task[c].geminiCalls = 0
             => Answered(c) /\ task[c].response.message.kind = "scanEmpty"
          /\ task[c].apiError
             => /\ Answered(c)
                /\ ~task[c].thrown
                /\ task[c].response.status = 200
                /\ task[c].response.message.role = "assistant"
                /\ task[c].response.message.kind = "scanListing"
                /\ task[c].response.message.files = task[c].scanResults.scannedFiles

\* a scan that found more files than the cap and whose analysis call
\* failed: the reply lists the 20 files the scan returned
C19_Witness ==
    \E c \in Connections :
       /\ Answered(c)
       /\ task[c].scanResults.success
       /\ task[c].scanResults.totalFiles > ScanFileCap
       /\ task[c].apiError
       /\ task[c].response.status = 200
       /\ task[c].response.message.kind = "scanListing"
       /\ task[c].response.message.files = ScanFileCap

\* the codes of the generated queries that are not in the course table
OtherCodes == {<<"M","T","H","1","0","1">>}

\* the context text names code as the course the user is asking about
NamesCourse(ctx, code) == ctx.courseCode.some /\ ctx.courseCode.val = code

\* C20 as stated: for a query whose course code is not in the course table,
\* extractCourseCode returns null, and the composed prompt has neither the
\* course section nor a context text that names the code as the course
C20_UnknownCourseIsNoCourse ==
    \A c \in Connections :
       (task[c].userContent.some /\ task[c].extractorCalls > 0)
       => \A code \in OtherCodes :
             (/\ ContainsCourseCode(task[c].userContent.val, code)
              /\ \A known \in CourseCodes : ~ContainsCourseCode(task[c].userContent.val, known))
             => /\ ~task[c].course.some
                /\ \A i \in 1..Len(task[c].sections) : task[c].sections[i] # "course"
                /\ ~NamesCourse(task[c].websiteContext, code)

\* "mth101": no course is extracted and the prompt has no course section,
\* but its website knowledge context names MTH101 as the course
C20_Witness ==
    \E c \in Connections :
       /\ Prompted(c)
       /\ task[c].userContent.val = <<"m","t","h","1","0","1">>
       /\ ~task[c].course.some
       /\ \A i \in 1..Len(task[c].sections) : task[c].sections[i] # "course"
       /\ \E i \in 1..Len(task[c].sections) : task[c].sections[i] = "resources"
       /\ NamesCourse(task[c].websiteContext, <<"M","T","H","1","0","1">>)

\* the prompt of the request on c has the web-search section
HasWebSection(c) == \E i \in 1..Len(task[c].sections) : task[c].sections[i] = "web"

\* C21 as stated: when the search call of a request fails, its prompt gets
\* no web-search section
C21_FailedSearchOmitted ==
    \A c \in Connections :
       task[c].searchError => ~HasWebSection(c) /\ task[c].webEntries = 0

\* a request whose search call failed: its prompt has the web-search section
\* with three entries, it went on to the Gemini call and was answered 200
C21_Witness ==
    \E c \in Connections :
       /\ Answered(c)
       /\ task[c].searchError
       /\ task[c].searchCalls = 1
       /\ HasWebSection(c)
       /\ task[c].webEntries = 3
       /\ task[c].geminiCalls = 1
       /\ task[c].response.status = 200

\* the prompt of the request on c has the section named
HasSection(c, section) ==
    \E i \in 1..Len(task[c].sections) : task[c].sections[i] = section

\* line states, for a category with the matches found, their number and the
\* first three of them (fewer when there are fewer) in their order
LineStates(line, found, names) ==
    /\ line.count = Len(found)
    /\ Len(line.examples) = (IF Len(found) < 3 THEN Len(found) ELSE 3)
    /\ \A k \in 1..Len(line.examples) : line.examples[k] = names[k]

\* lines has one line for the category when it has matches, which states
\* them, and none when it has no match
CategoryStated(lines, category, found, names) ==
    IF Len(found) > 0
    THEN /\ Cardinality({i \in 1..Len(lines) : lines[i].category = category}) = 1
         /\ \A i \in 1..Len(lines) :
               lines[i].category = category => LineStates(lines[i], found, names)
    ELSE \A i \in 1..Len(lines) : lines[i].category # category

\* the context ctx states the search results it was built from
ResultsStated(ctx, results) ==
    /\ ctx.totalResults = results.totalResults
    /\ CategoryStated(ctx.lines, "assignments", results.assignments,
                      [k \in 1..Len(results.assignments) |-> results.assignments[k].name])
    /\ CategoryStated(ctx.lines, "notes", results.notes,
                      [k \in 1..Len(results.notes) |-> results.notes[k].name])
    /\ CategoryStated(ctx.lines, "labManuals", results.labManuals,
                      [k \in 1..Len(results.labManuals) |-> results.labManuals[k].name])
    /\ CategoryStated(ctx.lines, "downloads", results.downloads,
                      [k \in 1..Len(results.downloads) |-> results.downloads[k].title])

\* C22: when the search of the resource index for the query of a chat
\* request has a match, the prompt has the resource-search context, with or
\* without the navigation section, and the context states for every
\* category with matches their number and the first three of them at most
C22_ResourceContext ==
    \A c \in Connections :
       (task[c].extractorCalls = 1 /\ task[c].websiteContext.searchResults.totalResults > 0)
       => /\ HasSection(c, "resources")
          /\ ResultsStated(task[c].websiteContext, task[c].websiteContext.searchResults)

\* "iot": no navigation query; the context states 4 notes and names the
\* first three of them
C22_Witness ==
    \E c \in Connections :
       /\ Prompted(c)
       /\ task[c].userContent.val = <<"i","o","t">>
       /\ ~HasSection(c, "navigation")
       /\ HasSection(c, "resources")
       /\ \E i \in 1..Len(task[c].websiteContext.lines) :
             /\ task[c].websiteContext.lines[i].category = "notes"
             /\ task[c].websiteContext.lines[i].count = 4
             /\ task[c].websiteContext.lines[i].examples = <<<<"i","o","t","1",".","m","d">>, <<"i","o","t","2",".","m","d">>, <<"i","o","t","3",".","m","d">>>>

\* C23: no step removes a bucket: every identity that has an entry in the
\* rate-limit map has one after the step
C23_BucketsStay ==
    [][DOMAIN tokens \subseteq DOMAIN tokens']_vars

\* two identities have buckets; the window of one has passed, the other
\* has since made a request, and the passed bucket is still in the map
C23_Witness ==
    \E a, b \in DOMAIN tokens :
       /\ a # b
       /\ now > tokens[a].resetTime
       /\ now <= tokens[b].resetTime
       /\ tokens[b].resetTime > tokens[a].resetTime

\* the step receives a request on connection c
Received(c) ==
    /\ task[c].pc \in {"idle", "done"}
    /\ now' = now
    /\ task'[c] # task[c] \/ tokens' # tokens

\* C24: the rate limiter runs before the handler looks at the request: a
\* request that finds its identity's counter below maxRequests is admitted
\* and counted, also when the handler answers it 400 or 500 in the same
\* step, and a request that finds the counter at maxRequests is answered
\* 429 whatever its body is
C24_CountedBeforeValidation ==
    [][\A c \in Connections :
          Received(c)
          => IF CountFound(Identity(task'[c].userId, task'[c].ip)) < maxRequests
             THEN /\ task'[c].admitted
                  /\ CountLeft(Identity(task'[c].userId, task'[c].ip))
                       = CountFound(Identity(task'[c].userId, task'[c].ip)) + 1
             ELSE /\ ~task'[c].admitted
                  /\ task'[c].response.status = 429
                  /\ tokens' = tokens]_vars

\* the 10th request of the window was without messages and answered 400;
\* the counter stands at 10
C24_Witness ==
    \E c \in Connections :
       /\ Answered(c)
       /\ task[c].admitted
       /\ task[c].messages.kind = "absent"
       /\ task[c].response.status = 400
       /\ tokens[Requester(c)].count = maxRequests
       /\ now <= tokens[Requester(c)].resetTime

\* the identity of a request: its userId when it has one, else its address
Caller(t) == IF t.userId = "" THEN t.ip ELSE t.userId

\* C25: a step that receives a request of one identity leaves the bucket of
\* every other identity as it is (and adds at most the bucket of its own
\* identity), and whether the request is admitted is decided by the bucket
\* of its own identity alone
C25_BucketsIsolated ==
    [][\A c \in Connections :
          Received(c)
          => /\ \A other \in DOMAIN tokens \ {Caller(task'[c])} :
                   other \in DOMAIN tokens' /\ tokens'[other] = tokens[other]
             /\ DOMAIN tokens' = DOMAIN tokens \cup {Caller(task'[c])}
             /\ task'[c].admitted <=> CountFound(Caller(task'[c])) < maxRequests]_vars

\* the bucket of "guest" is full in its window, and a request without
\* userId, counted by its address, has been admitted after it
C25_Witness ==
    \E c \in Connections :
       /\ Answered(c)
       /\ task[c].userId = ""
       /\ task[c].admitted
       /\ "guest" \in DOMAIN tokens
       /\ tokens["guest"].count = maxRequests
       /\ now <= tokens["guest"].resetTime
       /\ tokens[task[c].ip].count = 1
       /\ tokens[task[c].ip].resetTime > tokens["guest"].resetTime

\* C26: a step in which a request is answered 429 leaves the rate-limit map
\* as it is: the count and the reset time of the request's identity (and of
\* every other) are unchanged
C26_RejectionLeavesBucket ==
    [][\A c \in Connections :
          (Received(c) /\ task'[c].response.status = 429)
          => /\ tokens' = tokens
             /\ task'[c].response.resetTime = tokens[Caller(task'[c])].resetTime]_vars

\* a request rejected at the last instant of its identity's window: the
\* reset time is still that instant
C26_Witness ==
    \E c \in Connections :
       /\ Answered(c)
       /\ task[c].response.status = 429
       /\ now > 0
       /\ tokens[Caller(task[c])].resetTime = now
       /\ tokens[Caller(task[c])].count = maxRequests

\* the step receives a request of identity id
ReceivedOf(id) == \E c \in Connections : Received(c) /\ Caller(task'[c]) = id

\* C27: the bucket of an identity changes only in a step that receives a
\* request of the identity. A request arriving after the reset time starts
\* a new window: the reset time becomes the arrival time plus 60 s and the
\* count restarts (the request is the first of the window). A request
\* arriving at or before the reset time leaves the reset time and raises
\* the count by one at most. The count is always within 0..10
C27_FixedWindow ==
    [][\A id \in DOMAIN tokens :
          /\ tokens'[id] # tokens[id] => ReceivedOf(id)
          /\ IF ReceivedOf(id) /\ now > tokens[id].resetTime
             THEN /\ tokens'[id].resetTime = now + 60 * 1000
                  /\ tokens'[id].count = 1
             ELSE /\ tokens'[id].resetTime = tokens[id].resetTime
                  /\ tokens'[id].count \in {tokens[id].count, tokens[id].count + 1}
          /\ tokens[id].count \in 0..10
          /\ tokens'[id].count \in 0..10]_vars

\* a request that arrived exactly at the reset time was answered 429: the
\* window had not ended; and the window of the other identity, begun
\* later, is still counted from its own first request
C27_Witness ==
    \E c \in Connections :
       /\ Answered(c)
       /\ task[c].response.status = 429
       /\ tokens[Caller(task[c])].resetTime = now
       /\ \E other \in DOMAIN tokens :
             /\ tokens[other].resetTime = now + 60 * 1000
             /\ tokens[other].count \in 1..10
             /\ now >= 2 * 60 * 1000

\* the keyword groups of the fallback in their order, and their templates
FallbackGroups ==
    <<{<<"h","e","l","l","o">>, <<"h","i">>}, {<<"h","e","l","p">>}, {<<"c","o","u","r","s","e">>, <<"c","l","a","s","s">>},
      {<<"a","s","s","i","g","n","m","e","n","t">>, <<"h","o","m","e","w","o","r","k">>}, {<<"r","e","s","o","u","r","c","e">>, <<"m","a","t","e","r","i","a","l">>}>>

FallbackTemplates == <<"greeting", "help", "course", "assignment", "resource">>

\* the groups of which the query of the request on c contains a keyword
GroupsAsked(c) ==
    {g \in 1..Len(FallbackGroups) : \E word \in FallbackGroups[g] : Asks(c, word)}

\* C28: the fallback reply of a request whose Gemini call failed is the
\* template of the earliest group, in the order greeting, help, course,
\* assignment, resource, of which the query contains a keyword, and the
\* generic template when it contains none; so every query gets exactly one
\* of the six templates
C28_FallbackOrder ==
    \A c \in Connections :
       GatewayFailed(c)
       => /\ task[c].response.message.kind = "fallback"
          /\ task[c].response.message.template =
                (IF GroupsAsked(c) = {} THEN "generic"
                 ELSE FallbackTemplates[Min(GroupsAsked(c))])

\* "material assignment": keywords of the groups resource and assignment;
\* the reply is the assignment template, the earlier group
C28_Witness ==
    \E c \in Connections :
       /\ GatewayFailed(c)
       /\ task[c].userContent.val = <<"m","a","t","e","r","i","a","l"," ","a","s","s","i","g","n","m","e","n","t">>
       /\ GroupsAsked(c) = {4, 5}
       /\ task[c].response.message.template = "assignment"

\* out is text without the whitespace at its two ends
IsTrimOf(text, out) ==
    \E i \in 1..(Len(text) + 1) :
       /\ i + Len(out) - 1 <= Len(text)
       /\ out = SubSeq(text, i, i + Len(out) - 1)
       /\ \A k \in 1..(i - 1) : IsSpace(text[k])
       /\ \A k \in (i + Len(out))..Len(text) : IsSpace(text[k])
       /\ out # << >> => ~IsSpace(out[1]) /\ ~IsSpace(out[Len(out)])

\* C29: the query of a request is the content, without the whitespace at
\* its ends, of the last message of role user, wherever that message stands
\* in the list; it decides between command and chat, and it is the user
\* query of the prompt
C29_LatestUserMessage ==
    \A c \in Connections :
       task[c].userContent.some
       => /\ IsTrimOf(LastUser(task[c].messages.items).text, task[c].userContent.val)
          /\ task[c].scanCalls = 1
             <=> \/ BeginsWith(task[c].userContent.val, <<"/","s","c","a","n">>)
                 \/ BeginsWith(task[c].userContent.val, <<"/","d","e","b","u","g">>)
          /\ task[c].scanCalls = 0 <=> task[c].extractorCalls = 1
          /\ Prompted(c)
             => /\ fullPrompt(task[c]).userContent = task[c].userContent.val
                /\ task[c].sections[Len(task[c].sections)] = "query"

\* the request whose only user message, "/scan src", is followed by five
\* assistant messages and so lies before the last 5: it is a command with
\* the scan path src
C29_Witness ==
    \E c \in Connections :
       /\ Len(task[c].messages.items) = 6
       /\ task[c].messages.items[1].role = "user"
       /\ \A i \in 2..6 : task[c].messages.items[i].role = "assistant"
       /\ task[c].userContent.val = <<"/","s","c","a","n"," ","s","r","c">>
       /\ task[c].scanCalls = 1
       /\ task[c].scanPath = <<"s","r","c">>
       /\ task[c].pc = "done"

\* the latest entry of role user is found and its content is no string
NoStringContent(messages) ==
    /\ messages.kind = "array"
    /\ \E i \in 1..Len(messages.items) :
          ~messages.items[i].null /\ messages.items[i].role = "user"
    /\ ~NullBeforeUser(messages.items)
    /\ ~LastUser(messages.items).isString

\* C30: an admitted request whose latest user message has no string content
\* is answered 500 with the error text and the assistant apology, never 400,
\* and neither the extractors, a scan, a web search nor Gemini is called for
\* it; no query is recorded for it
C30_NoStringContentIs500 ==
    \A c \in Connections :
       (task[c].admitted /\ NoStringContent(task[c].messages))
       => /\ task[c].pc = "done"
          /\ task[c].response.status = 500
          /\ task[c].response.error = "Failed to process your request"
          /\ task[c].response.message.role = "assistant"
          /\ task[c].response.message.kind = "apology"
          /\ NoCalls(c)
          /\ ~task[c].userContent.some

\* the request ["hi", a user message without content]: the earlier message
\* is not taken in its place, and the answer is 500 with the apology
C30_Witness ==
    \E c \in Connections :
       /\ task[c].admitted
       /\ task[c].messages = MessageArray(<<User(<<"h","i">>), NoTextMessage("user")>>)
       /\ task[c].response.status = 500
       /\ task[c].response.message.kind = "apology"
       /\ NoCalls(c)

=============================================================================
